---- MODULE Spec2Model ----
(***************************************************************************)
(* HawkTUI: a model of the event bus (Event::Observer, Event::GenericEvent *)
(* and the string-keyed EventManager), of the Renderer and of the          *)
(* UIContext input loop with its hit test, as state machines.              *)
(*                                                                         *)
(* The module holds twelve specifications over one set of variables:       *)
(*   SpecBus        the bus driven by arbitrary sub/unsub/add/remove/notify*)
(*                  calls with callbacks that do not call back into it;    *)
(*   SpecReentrant  the same bus with callbacks that add, remove or        *)
(*                  dispatch again while a dispatch is running;            *)
(*   SpecRender     Renderer::render and UIContext::batch_render over      *)
(*                  arbitrary forests of elements;                         *)
(*   Spec           UIContext::start over a tree of Buttons, Nodes and     *)
(*                  Boxes, one step per input read, mouse record or paint, *)
(*                  on a terminal that keeps its size;                     *)
(*   SpecResize     UIContext::start over a tree of Buttons, with terminal *)
(*                  resizes among its inputs;                              *)
(*   SpecReturn     SpecResize with the steps of start that do not wait    *)
(*                  for input taken eventually;                            *)
(*   SpecBoot       main from before the construction of the context to    *)
(*                  the end of the process;                                *)
(*   SpecGeometry   Boxes created and resized with any dimensions, and     *)
(*                  Texts created without a window override;               *)
(*   SpecClick      UIContext::start over Buttons whose callback counts    *)
(*                  its calls;                                             *)
(*   SpecRoots      add_child, del_child and clear_children called with    *)
(*                  any pointer the application holds;                     *)
(*   SpecLegacy     the string-keyed revision: its UIContext::start and    *)
(*                  render over Boxes and Buttons;                         *)
(*   SpecNodes      UIContext::start over two root Nodes, with the         *)
(*                  listeners wired.                                       *)
(* All but SpecBoot start from the state after a successful construction;  *)
(* a specification leaves the variables it does not use at their initial   *)
(* values.                                                                 *)
(***************************************************************************)
EXTENDS Integers, Sequences, FiniteSets, TLC

\* ------------------------------------------------------------ bounds
\* Elements of a forest handed to the Renderer (a Button is three elements,
\* a Node six).
MaxElems == 7
\* Elements the application constructs before it starts the input loop.
MaxTree == 6
\* Roots the application adds before it starts the loop.
MaxRoots == 2
\* Mouse records the driver holds at one poll.
MaxBurst == 2
\* Subscriptions and callables created in one run of the bus.
MaxSerial == 3
\* Distinct addresses a callable passed to add/remove can have.
MaxAddr == 2
\* Depth to which a callback dispatches the event it is handling again.
MaxDepth == 1
\* Entries of the root list while add_child and del_child are called on it.
MaxList == 3

\* ------------------------------------------------------------ the bus
VARIABLES
    handlers,    \* Observer::_handlers: event key -> listeners, in sub order
    calls,       \* GenericEvent::_calls of each listener: Meta records
    em_handlers, \* EventManager::handlers: event name -> callbacks
    invoked,     \* the callbacks the last dispatch invoked, in order
    ub,          \* the last dispatch used an invalidated iterator
    lastOp,      \* the last operation performed on the bus
    subscribed,  \* history: the subscriptions made by sub and not undone by unsub
    registered,  \* history: the callables added by add and not removed
    serial       \* subscriptions and callables created so far

busVars == <<handlers, calls, em_handlers, invoked, ub, lastOp,
             subscribed, registered, serial>>

\* ------------------------------------------------------------ the element tree
VARIABLES
    elems,       \* the elements created so far: id -> fields of the object
    windows,     \* the driver's surfaces: WINDOW* -> origin and size
    children,    \* ScreenContext::_children: the root list
    mcalls,      \* mouse_event._calls: the handlers the elements registered
    frame        \* the calls made since the last input (key or mouse record)

treeVars == <<elems, windows, children, mcalls, frame>>

\* ------------------------------------------------------------ the input loop
VARIABLES
    pc,          \* where the program is: boot, failed, setup, read, mouse,
                 \* done, exited, aborted, terminated
    running,     \* ScreenContext::_running
    mdata,       \* mouse_event.data
    pending,     \* mouse records the driver still holds for this poll
    cycle,       \* the last poll: its key, its burst, what was done since
    press,       \* the last hit-test walk: what it saw and what it resolved
    pair,        \* the last press and its release: what the handlers were given
    screen,      \* ScreenContext::_screen_width, _screen_height
    sdata,       \* screen_event.data
    resized,     \* what the application's Resize handler last got and read
    session,     \* the ncurses session: ScreenContext::_window and the
                 \* teardowns (endwin) made
    counter      \* the application's counter of the clicks its callback got

loopVars == <<pc, running, mdata, pending, cycle, press, pair, screen, sdata,
              resized, session, counter>>

uiVars == <<treeVars, loopVars>>

\* The Event::Type keys the bus model dispatches.
Keys == {"Click", "Mousemove"}

\* The event names of the string-keyed EventManager.
Names == {"resize", "click"}

\* The GenericEvent instances: UIContext::mouse_event and screen_event.
Listeners == {"mouse_event", "screen_event"}

\* EventListener::id is the address of the listener itself.
ListenerId(l) == l

\* Addresses of the callable handed to GenericEvent::add / remove.
Addrs == 1..MaxAddr

\* What a callback does when invoked.  "log" only observes its argument;
\* "setx" assigns to the x of its argument; "add", "remove" and "notify"
\* call back into the bus that is dispatching to them.
Kinds == {"log", "setx", "add", "remove", "notify"}

\* The address argument of a callback of kind k that calls add or remove.
KindArgs(k) == IF k \in {"add", "remove"} THEN Addrs ELSE {0}

\* The addresses the model gives a callable of kind k itself.
OwnAddrs(k) == IF k \in {"log", "setx"} THEN Addrs ELSE {1}

\* The payload x the bus model dispatches with, and the value a "setx"
\* callback writes over it.
Payloads == {0}
SetXValue == CHOOSE v \in 1..2 : v \notin Payloads

\* How a build resolves the use of an invalidated vector iterator: the old
\* buffer still holds the old elements ("stale"), the loop reads the vector's
\* current elements up to the cached end ("live"), or the program dies.
Modes == {"stale", "live", "abort"}

\* _handlers[event]: operator[] makes an absent key an empty list.
SubscriberList(h, e) == IF e \in DOMAIN h THEN h[e] ELSE <<>>

\* unordered_map::operator[]: the map with the key present.
Touch(h, e) == [k \in DOMAIN h \cup {e} |-> SubscriberList(h, k)]

\* Observer::sub: emplace_back on the key's list.
Observer_sub(h, e, l) ==
    [Touch(h, e) EXCEPT ![e] = Append(@, l)]

\* (mutants of Observer::unsub: erase the last match only; erase the first
\* match only; pop the last subscriber when the listener is not found)
Observer_unsub_last(h, e, l) ==
    LET s == SubscriberList(h, e)
        hits == {i \in 1..Len(s) : ListenerId(s[i]) = ListenerId(l)}
        last == CHOOSE i \in hits : \A j \in hits : i >= j
    IN IF hits = {} THEN Touch(h, e)
       ELSE [Touch(h, e) EXCEPT ![e] =
                SubSeq(s, 1, last - 1) \o SubSeq(s, last + 1, Len(s))]

Observer_unsub_first(h, e, l) ==
    LET s == SubscriberList(h, e)
        hits == {i \in 1..Len(s) : ListenerId(s[i]) = ListenerId(l)}
        first == CHOOSE i \in hits : \A j \in hits : i <= j
    IN IF hits = {} THEN Touch(h, e)
       ELSE [Touch(h, e) EXCEPT ![e] =
                SubSeq(s, 1, first - 1) \o SubSeq(s, first + 1, Len(s))]

Observer_unsub_pop(h, e, l) ==
    LET s == SubscriberList(h, e)
    IN IF s = <<>> THEN Touch(h, e)
       ELSE IF \E i \in 1..Len(s) : ListenerId(s[i]) = ListenerId(l)
            THEN [Touch(h, e) EXCEPT ![e] =
                     SelectSeq(@, LAMBDA p : ListenerId(p) # ListenerId(l))]
            ELSE [Touch(h, e) EXCEPT ![e] = SubSeq(s, 1, Len(s) - 1)]

\* Observer::unsub: std::erase_if over the key's list, by listener id.
Observer_unsub(h, e, l) ==
    IF SubscriberList(h, e) = <<>> THEN Touch(h, e)
    ELSE [Touch(h, e) EXCEPT ![e] =
             SelectSeq(@, LAMBDA p : ListenerId(p) # ListenerId(l))]

\* GenericEvent::add: the id is the address of the callable argument.
GenericEvent_add(c, type, func, addr) ==
    Append(c, [func |-> func, id |-> addr, type |-> type])

GenericEvent_remove(c, addr) ==
    SelectSeq(c, LAMBDA m : m.id # addr)

\* Meta::func is std::function<void(C)>: the callback's parameter is a copy
\* of the listener's data, destroyed when the callback returns.  The data
\* member after the call, given the parameter as the callback left it.
PayloadAfterCall(member, param) == member

\* ------------------------------------------------------------ dispatch
\* The state one dispatch threads through the callbacks it invokes.
RunState(c, d, reg, n) ==
    [calls |-> c, data |-> d, log |-> <<>>, ub |-> FALSE, dead |-> FALSE,
     updates |-> <<>>, serial |-> n, registered |-> reg]

RECURSIVE NotifyIter(_, _, _, _, _, _)
RECURSIVE UpdateIter(_, _, _, _, _, _, _, _, _, _)

\* x.func(this->data): one callback invoked on a copy of the listener's data.
\* (An "add" callback stops adding once MaxSerial callables exist.)
Invoke(h, l, x, e, R, depth, mode) ==
    LET param == R.data[l]
        kind == x.func.kind
        after == IF kind = "setx" THEN [param EXCEPT !.x = SetXValue] ELSE param
        entry == [u |-> Len(R.updates), listener |-> l, cb |-> x.func.cb,
                  kind |-> kind, seen |-> param.x, depth |-> depth]
        R1 == [R EXCEPT !.log = Append(@, entry),
                        !.data[l] = PayloadAfterCall(@, after)]
        fresh == [kind |-> "log", cb |-> R.serial + 1, arg |-> 0]
    IN CASE kind = "add" /\ R.serial < MaxSerial ->
              [R1 EXCEPT !.calls[l] = GenericEvent_add(@, e, fresh, x.func.arg),
                         !.serial = @ + 1,
                         !.registered = @ \cup {[listener |-> l, cb |-> fresh.cb,
                                                 type |-> e, id |-> x.func.arg]}]
         [] kind = "remove" ->
              [R1 EXCEPT !.calls[l] = GenericEvent_remove(@, x.func.arg),
                         !.registered = {r \in @ : ~(r.listener = l /\ r.id = x.func.arg)}]
         [] kind = "notify" ->
              IF depth < MaxDepth THEN NotifyIter(h, e, 1, R1, depth + 1, mode)
              ELSE R1
         [] OTHER -> R1

\* GenericEvent::update: for (Meta& x : _calls) if (x.type == event) x.func(data).
\* The range-for caches begin and end: i runs to n, the length when the loop
\* began; snap is the vector as it was then, inval whether a callback has
\* changed the vector since.
UpdateIter(h, l, e, i, n, snap, inval, R, depth, mode) ==
    IF R.dead \/ i > n THEN R
    ELSE LET live == R.calls[l]
             readable == ~inval \/ mode = "stale" \/ (mode = "live" /\ i <= Len(live))
             x == IF ~inval \/ mode = "stale" THEN snap[i] ELSE live[i]
         IN IF ~readable THEN [R EXCEPT !.dead = TRUE]
            ELSE IF x.type # e
                 THEN UpdateIter(h, l, e, i + 1, n, snap, inval, R, depth, mode)
                 ELSE LET R2 == Invoke(h, l, x, e, R, depth, mode)
                          inval2 == inval \/ R2.calls[l] # live
                      IN UpdateIter(h, l, e, i + 1, n, snap, inval2,
                                    [R2 EXCEPT !.ub = @ \/ inval2], depth, mode)

(* mutants of GenericEvent::update: no filter on the event type; newest first *)
GenericEvent_update_all(h, l, e, R, depth, mode) ==
    LET R1 == [R EXCEPT !.updates = Append(@, l)]
        c == [i \in 1..Len(R.calls[l]) |-> [R.calls[l][i] EXCEPT !.type = e]]
    IN UpdateIter(h, l, e, 1, Len(c), c, FALSE, R1, depth, mode)

GenericEvent_update(h, l, e, R, depth, mode) ==
    LET R1 == [R EXCEPT !.updates = Append(@, l)]
    IN UpdateIter(h, l, e, 1, Len(R.calls[l]), R.calls[l], FALSE, R1, depth, mode)

\* Observer::notify: for (auto&& vec : _handlers[event]) vec->update(event).
NotifyIter(h, e, i, R, depth, mode) ==
    LET s == SubscriberList(h, e)
    IN IF R.dead \/ i > Len(s) THEN R
       ELSE NotifyIter(h, e, i + 1,
                       GenericEvent_update(h, s[i], e, R, depth, mode), depth, mode)

(* mutant of Observer::notify: a key without subscribers falls through to
   the subscribers of every key *)
Observer_notify_fallthrough(h, e, R, mode) ==
    IF SubscriberList(h, e) # <<>> THEN NotifyIter(h, e, 1, R, 0, mode)
    ELSE LET k == CHOOSE k \in DOMAIN h \cup {e} :
                     \A j \in DOMAIN h : Len(SubscriberList(h, j)) <= Len(SubscriberList(h, k))
         IN NotifyIter(h, k, 1, R, 0, mode)

Observer_notify(h, e, R, mode) == NotifyIter(h, e, 1, R, 0, mode)

\* EventManager::dispatch: handlers.find(event), then every callback in order.
EventManager_dispatch(h, name) ==
    IF name \in DOMAIN h
    THEN [i \in 1..Len(h[name]) |->
             [u |-> 1, listener |-> name, cb |-> h[name][i].cb, kind |-> "log",
              seen |-> 0, depth |-> 0]]
    ELSE <<>>

\* EventManager::subscribe: handlers[event].emplace_back(wrapper of callback).
EventManager_subscribe(h, name, func) ==
    [k \in DOMAIN h \cup {name} |->
        IF k = name THEN Append(SubscriberList(h, name), func) ELSE h[k]]

\* ------------------------------------------------------------ initial tree
\* stdscr, the root surface initscr() returns.
stdscr == 0

\* The terminal's size in character cells.
COLS == 16
LINES == 8

TreeInit ==
    /\ elems = <<>>
    /\ windows = [w \in {stdscr} |-> [x |-> 0, y |-> 0, w |-> COLS, h |-> LINES]]
    /\ children = <<>>
    /\ mcalls = <<>>
    /\ frame = <<>>

\* Event::MouseData with its default member initialisers; 0 is the empty
\* shared_ptr.
MouseData == [x |-> 0, y |-> 0, offset_x |-> 0, offset_y |-> 0, element |-> 0]

\* A poll: whether a key was read, the mouse records pending at the read, the records
\* handled and the commits (doupdate) made since, whether a record was
\* handled after a commit, the button bits of the last record handled, the
\* key while its iteration runs, and the record (counted from 1) during which
\* a callback called stop(), 0 when none did.
NoCycle == [polled |-> FALSE, burst |-> 0, records |-> 0, commits |-> 0,
            late |-> FALSE, bits |-> {}, key |-> "", stopped |-> 0]

NoPress == [walked |-> FALSE, before |-> 0, inside |-> {}, hits |-> <<>>]

\* No press seen yet.  After a press: the element its Mousedown handlers were
\* given, whether the press lay in the bounds of that root, the offset stored
\* by then, whether a record without button bits came after it, and after its
\* release the element the Mouseup and the Click handlers were given.
NoPair == [pressed |-> FALSE, down |-> 0, hit |-> FALSE, dx |-> 0, dy |-> 0,
           moved |-> FALSE, closed |-> FALSE, up |-> 0, click |-> 0]

\* Event::ScreenData with its default member initialisers.
ScreenData == [width |-> 0, height |-> 0]

\* The application's Resize handler has not run.
NoResize == [width |-> 0, height |-> 0, ctx_width |-> 0, ctx_height |-> 0]

\* getmaxyx(win, y, x): the size of a window, rows first.
getmaxyx(W, win) == <<W[win].h, W[win].w>>

(* mutant of update_dimensions: the two outputs of getmaxyx are swapped *)
update_dimensions_swapped(W, scr) ==
    [width |-> getmaxyx(W, stdscr)[1], height |-> getmaxyx(W, stdscr)[2]]

\* ScreenContext::update_dimensions: getmaxyx(_window, _screen_height,
\* _screen_width); _window is stdscr.
update_dimensions(W, scr) ==
    [width |-> getmaxyx(W, stdscr)[2], height |-> getmaxyx(W, stdscr)[1]]

\* ScreenContext::get_width and get_height.
get_width(scr) == scr.width
get_height(scr) == scr.height

\* What initscr() can yield: no window, or stdscr.
InitscrResults == {"null", "window"}

\* No session yet: UIContext is not constructed.
NoSession == [window |-> "none", teardowns |-> 0]

\* ScreenContext::configure_ncurses: _window = initscr(); without a window it
\* throws, else it reads the dimensions and sets _running last.
configure_ncurses(w) ==
    [thrown |-> w = "null", running |-> w # "null",
     session |-> [NoSession EXCEPT !.window = w]]

\* UIContext after its construction: ncurses configured, nothing read yet.
LoopInit ==
    /\ pc = "setup"
    /\ running = TRUE
    /\ mdata = MouseData
    /\ pending = 0
    /\ cycle = NoCycle
    /\ press = NoPress
    /\ pair = NoPair
    /\ screen = update_dimensions(windows, [width |-> 0, height |-> 0])
    /\ sdata = ScreenData
    /\ resized = NoResize
    /\ session = configure_ncurses("window").session
    /\ counter = 0

\* ------------------------------------------------------------ bus actions
NoOp == [op |-> "none", event |-> "", listener |-> "", addr |-> 0, px |-> 0,
         updates |-> <<>>, hit |-> FALSE, removed |-> 0]

BusInit ==
    /\ handlers = <<>>
    /\ calls = [l \in Listeners |-> <<>>]
    /\ em_handlers = <<>>
    /\ invoked = <<>>
    /\ ub = FALSE
    /\ lastOp = NoOp
    /\ subscribed = {}
    /\ registered = {}
    /\ serial = 0

IsSubscribed(h, e, l) ==
    \E i \in 1..Len(SubscriberList(h, e)) : SubscriberList(h, e)[i] = l

Sub(e, l) ==
    /\ serial < MaxSerial
    /\ handlers' = Observer_sub(handlers, e, l)
    /\ subscribed' = subscribed \cup {[event |-> e, listener |-> l, sn |-> serial + 1]}
    /\ serial' = serial + 1
    /\ lastOp' = [NoOp EXCEPT !.op = "sub"]
    /\ invoked' = <<>>
    /\ ub' = FALSE
    /\ UNCHANGED <<calls, em_handlers, registered>>
    /\ UNCHANGED uiVars

Unsub(e, l) ==
    /\ handlers' = Observer_unsub(handlers, e, l)
    /\ subscribed' = {s \in subscribed : ~(s.event = e /\ s.listener = l)}
    /\ lastOp' = [NoOp EXCEPT !.op = "unsub", !.event = e, !.listener = l,
                              !.hit = IsSubscribed(handlers, e, l),
                              !.removed = Len(SubscriberList(handlers, e))
                                          - Len(SubscriberList(handlers', e))]
    /\ invoked' = <<>>
    /\ ub' = FALSE
    /\ UNCHANGED <<calls, em_handlers, registered, serial>>
    /\ UNCHANGED uiVars

Add(l, t, kind, a, arg) ==
    /\ serial < MaxSerial
    /\ calls' = [calls EXCEPT ![l] = GenericEvent_add(
                     @, t, [kind |-> kind, cb |-> serial + 1, arg |-> arg], a)]
    /\ registered' = registered \cup
                       {[listener |-> l, cb |-> serial + 1, type |-> t, id |-> a]}
    /\ serial' = serial + 1
    /\ lastOp' = [NoOp EXCEPT !.op = "add"]
    /\ invoked' = <<>>
    /\ ub' = FALSE
    /\ UNCHANGED <<handlers, em_handlers, subscribed>>
    /\ UNCHANGED uiVars

Remove(l, a) ==
    /\ calls' = [calls EXCEPT ![l] = GenericEvent_remove(@, a)]
    /\ registered' = {r \in registered : ~(r.listener = l /\ r.id = a)}
    /\ lastOp' = [NoOp EXCEPT !.op = "remove", !.listener = l, !.addr = a,
                              !.hit = \E i \in 1..Len(calls[l]) : calls[l][i].id = a]
    /\ invoked' = <<>>
    /\ ub' = FALSE
    /\ UNCHANGED <<handlers, em_handlers, subscribed, serial>>
    /\ UNCHANGED uiVars

\* The caller sets the listeners' data (x) and calls Observer::notify.
Notify(e, px, mode) ==
    LET R == Observer_notify(Touch(handlers, e), e,
                             RunState(calls, [l \in Listeners |-> [x |-> px]],
                                      registered, serial), mode)
    IN /\ handlers' = Touch(handlers, e)
       /\ calls' = R.calls
       /\ registered' = R.registered
       /\ serial' = R.serial
       /\ invoked' = R.log
       /\ ub' = R.ub
       /\ lastOp' = [NoOp EXCEPT !.op = "notify", !.event = e, !.px = px,
                                 !.updates = R.updates,
                                 !.hit = SubscriberList(handlers, e) # <<>>]
       /\ UNCHANGED <<em_handlers, subscribed>>
       /\ UNCHANGED uiVars

EMSubscribe(name) ==
    /\ serial < MaxSerial
    /\ em_handlers' = EventManager_subscribe(
                          em_handlers, name, [kind |-> "log", cb |-> serial + 1, arg |-> 0])
    /\ serial' = serial + 1
    /\ lastOp' = [NoOp EXCEPT !.op = "subscribe"]
    /\ invoked' = <<>>
    /\ ub' = FALSE
    /\ UNCHANGED <<handlers, calls, subscribed, registered>>
    /\ UNCHANGED uiVars

EMDispatch(name) ==
    /\ invoked' = EventManager_dispatch(em_handlers, name)
    /\ lastOp' = [NoOp EXCEPT !.op = "dispatch", !.event = name,
                              !.hit = SubscriberList(em_handlers, name) # <<>>]
    /\ ub' = FALSE
    /\ UNCHANGED <<handlers, calls, em_handlers, subscribed, registered, serial>>
    /\ UNCHANGED uiVars

vars == <<busVars, uiVars>>

\* Every specification starts with an empty bus and an empty tree.
Init == BusInit /\ TreeInit /\ LoopInit

NextBus ==
    \/ \E e \in Keys, l \in Listeners : Sub(e, l)
    \/ \E e \in Keys, l \in Listeners : Unsub(e, l)
    \/ \E l \in Listeners, t \in Keys : Add(l, t, "log", 1, 0)
    \/ \E l \in Listeners : Remove(l, 1)
    \/ \E e \in Keys, px \in Payloads, m \in Modes : Notify(e, px, m)
    \/ \E n \in Names : EMSubscribe(n)
    \/ \E n \in Names : EMDispatch(n)

SpecBus == Init /\ [][NextBus]_vars

\* The bus with callbacks that write to their argument or call back into the
\* bus while it dispatches to them.
NextReentrant ==
    \/ \E e \in Keys : Sub(e, "mouse_event")
    \/ \E e \in Keys : Unsub(e, "mouse_event")
    \/ \E t \in Keys, k \in Kinds :
          \E a \in OwnAddrs(k), arg \in KindArgs(k) : Add("mouse_event", t, k, a, arg)
    \/ \E a \in Addrs : Remove("mouse_event", a)
    \/ \E e \in Keys, px \in Payloads, m \in Modes : Notify(e, px, m)

SpecReentrant == Init /\ [][NextReentrant]_vars

\* ------------------------------------------------------------ bus claims
RECURSIVE SortedSeq(_)
\* The numbers of a finite set in increasing order.
SortedSeq(N) ==
    IF N = {} THEN <<>>
    ELSE LET m == CHOOSE m \in N : \A o \in N : m <= o
         IN <<m>> \o SortedSeq(N \ {m})

\* The log entries of the u-th update call of the last dispatch.
CalledIn(u) == SelectSeq(invoked, LAMBDA x : x.u = u /\ x.depth = 0)

\* The listeners subscribed to e by sub and not unsubscribed since, in the
\* order of their subscriptions.
ExpectedListeners(e) ==
    LET subs == {s \in subscribed : s.event = e}
        order == SortedSeq({s.sn : s \in subs})
    IN [i \in 1..Len(order) |-> (CHOOSE s \in subs : s.sn = order[i]).listener]

\* The callables added to l for e and not removed since, in the order added.
ExpectedCallbacks(l, e) ==
    SortedSeq({r.cb : r \in {r \in registered : r.listener = l /\ r.type = e}})

\* C1: after any sequence of sub, unsub, add and remove, notify(e) calls
\* update on exactly the listeners subscribed to e and not unsubscribed, once
\* per subscription and in subscription order, and each update invokes
\* exactly the callables added to that listener for e, in the order added.
C1_NotifyInvokesSubscribed ==
    lastOp.op = "notify" =>
        /\ lastOp.updates = ExpectedListeners(lastOp.event)
        /\ \A u \in 1..Len(lastOp.updates) :
              [i \in 1..Len(CalledIn(u)) |-> CalledIn(u)[i].cb]
                  = ExpectedCallbacks(lastOp.updates[u], lastOp.event)
        /\ \A i \in 1..Len(invoked) : invoked[i].u \in 1..Len(lastOp.updates)

\* A dispatch to two different listeners, one of which had a callback to
\* invoke, after some subscription was undone.
C1_Witness ==
    /\ lastOp.op = "notify"
    /\ Len(lastOp.updates) >= 2
    /\ lastOp.updates[1] # lastOp.updates[2]
    /\ invoked # <<>>

\* C2: a dispatch of a key without subscribers (Observer::notify, or
\* EventManager::dispatch on a name without handlers) calls no update and no
\* callback, uses no invalid iterator, and changes no key's subscriber list
\* and no listener's callbacks.
C2_EmptyDispatchNoOp ==
    [][/\ (lastOp'.op = "notify" /\ SubscriberList(handlers, lastOp'.event) = <<>>)
          => /\ invoked' = <<>>
             /\ lastOp'.updates = <<>>
             /\ ~ub'
             /\ calls' = calls
             /\ \A k \in Keys : SubscriberList(handlers', k) = SubscriberList(handlers, k)
       /\ (lastOp'.op = "dispatch" /\ SubscriberList(em_handlers, lastOp'.event) = <<>>)
          => /\ invoked' = <<>>
             /\ em_handlers' = em_handlers
      ]_vars

\* An empty key was dispatched while another key had a subscriber with a
\* callback to run.
C2_Witness ==
    /\ lastOp.op = "notify"
    /\ ~lastOp.hit
    /\ \E k \in Keys : \E i \in 1..Len(SubscriberList(handlers, k)) :
          \E j \in 1..Len(calls[handlers[k][i]]) : calls[handlers[k][i]][j].type = k

\* C3: unsub(e, l) for a listener l not subscribed to e leaves the ordered
\* subscriber list of every key as it was.
C3_UnsubUnknownNoOp ==
    [][(lastOp'.op = "unsub"
        /\ ~IsSubscribed(handlers, lastOp'.event, lastOp'.listener))
       => \A k \in Keys : SubscriberList(handlers', k) = SubscriberList(handlers, k)
      ]_vars

\* unsub of a listener that was not subscribed to a key that has subscribers.
C3_Witness ==
    /\ lastOp.op = "unsub"
    /\ ~lastOp.hit
    /\ SubscriberList(handlers, lastOp.event) # <<>>

\* C4 (as claimed): within one update, a callback invoked after a callback
\* that wrote x of its payload sees the written value.
C4_SamePayloadInstance ==
    \A i, j \in 1..Len(invoked) :
        (/\ i < j
         /\ invoked[i].u = invoked[j].u
         /\ invoked[i].depth = invoked[j].depth
         /\ invoked[i].kind = "setx")
        => invoked[j].seen = SetXValue

\* The callbacks registered for e on the subscribers of e, in dispatch order.
RECURSIVE SnapshotCalls(_, _, _, _)
SnapshotCalls(h, c, e, i) ==
    LET s == SubscriberList(h, e)
    IN IF i > Len(s) THEN <<>>
       ELSE LET own == SelectSeq(c[s[i]], LAMBDA m : m.type = e)
            IN [k \in 1..Len(own) |-> own[k].func.cb] \o SnapshotCalls(h, c, e, i + 1)

\* C5 (as claimed): whatever the callbacks of a dispatch do to the bus, the
\* dispatch uses no invalidated iterator and its own loop invokes every
\* callback registered when it began exactly once, in order.
C5_ReentrantDispatchSafe ==
    [][lastOp'.op = "notify"
       => /\ ~ub'
          /\ LET outer == SelectSeq(invoked', LAMBDA x : x.depth = 0)
             IN [i \in 1..Len(outer) |-> outer[i].cb]
                    = SnapshotCalls(handlers, calls, lastOp'.event, 1)
      ]_vars

\* ------------------------------------------------------------ the driver
\* newwin(nlines, ncols, begy, begx): a size of 0 extends to the screen's edge.
newwin(W, nlines, ncols, begy, begx) ==
    [x |-> begx, y |-> begy,
     w |-> IF ncols = 0 THEN W[stdscr].w - begx ELSE ncols,
     h |-> IF nlines = 0 THEN W[stdscr].h - begy ELSE nlines]

\* wresize(win, lines, cols): ERR, and no change, for a size below 1.
wresize(W, win, nlines, ncols) ==
    IF nlines < 1 \/ ncols < 1
    THEN W
    ELSE [W EXCEPT ![win].h = nlines, ![win].w = ncols]

\* mvwin(win, y, x): ERR, and no move, when the window would leave the screen.
mvwin(W, win, y, x) ==
    IF x < 0 \/ y < 0 \/ x + W[win].w > W[stdscr].w \/ y + W[win].h > W[stdscr].h
    THEN W
    ELSE [W EXCEPT ![win].x = x, ![win].y = y]

\* ------------------------------------------------------------ elements
\* The program's objects as one value, for the operators that construct
\* elements and run handlers: S.last is the object created last, S.trace the
\* driver calls made so far, S.undefined whether a call with undefined
\* behaviour was made, S.crashed whether the process has died of it.
World ==
    [elems |-> elems, windows |-> windows, mcalls |-> mcalls, last |-> 0,
     children |-> children, handlers |-> handlers, data |-> mdata,
     running |-> running, crashed |-> FALSE, undefined |-> FALSE,
     trace |-> frame, press |-> NoPress, counter |-> counter]

NoCoords == [x |-> 0, y |-> 0]

\* An AbstractUIElement with its defaults: empty composition, Flags::None.
Elem(kind, win) ==
    [kind |-> kind, window |-> win, composition |-> <<>>, flags |-> "None",
     width |-> 0, height |-> 0, x |-> 0, y |-> 0, len |-> 0,
     clickable |-> 0, current_line |-> 0, line_origin |-> NoCoords,
     pos1 |-> NoCoords, pos2 |-> NoCoords]

\* The address a new object gets: the least id no live element has.
FreshId(E) == CHOOSE i \in 1..(Cardinality(DOMAIN E) + 1) : i \notin DOMAIN E

\* The last object put on the heap.
Put(S, e) ==
    LET id == FreshId(S.elems)
    IN [S EXCEPT !.elems = [i \in DOMAIN S.elems \cup {id} |->
                               IF i = id THEN e ELSE S.elems[i]],
                 !.last = id]

\* The handle newwin returns: the next unused one.
FreshWin(W) == CHOOSE i \in 1..(Cardinality(DOMAIN W) + 1) : i \notin DOMAIN W

\* UIBox::create(x, y, width, height) without a window override.
UIBox_create(S, x, y, width, height) ==
    LET win == FreshWin(S.windows)
        W1 == [i \in DOMAIN S.windows \cup {win} |->
                  IF i = win THEN newwin(S.windows, height, width, y, x)
                  ELSE S.windows[i]]
    IN Put([S EXCEPT !.windows = W1],
           [Elem("Box", win) EXCEPT !.width = width, !.height = height,
                                    !.x = x, !.y = y])

\* UIText::create(x, y, label, window) with a window override: the text is
\* centred in a window of label.length() + 2 by 3, resized and moved.
UIText_create(S, x, y, len, win) ==
    LET width == len + 2
        height == 3
        W1 == mvwin(wresize(S.windows, win, height, width), win, y, x)
    IN Put([S EXCEPT !.windows = W1],
           [Elem("Text", win) EXCEPT !.width = width, !.height = height,
                                     !.x = x, !.y = y, !.len = len])

\* UIText::create(x, y, label) without a window override: the text gets a
\* window of its own from newwin(height, width, win_y, win_y).
UIText_create_own(S, x, y, len) ==
    LET width == len + 2
        height == 3
        win == FreshWin(S.windows)
        W1 == [i \in DOMAIN S.windows \cup {win} |->
                  IF i = win THEN newwin(S.windows, height, width, y, y)
                  ELSE S.windows[i]]
    IN Put([S EXCEPT !.windows = W1],
           [Elem("Text", win) EXCEPT !.width = width, !.height = height,
                                     !.x = x, !.y = y, !.len = len])

\* UIText::get_window_pos: the cached win_x and win_y.
UIText_get_window_pos(E, text) == [x |-> E[text].x, y |-> E[text].y]

\* UIBox::set_dimensions.
UIBox_set_dimensions(S, box, width, height) ==
    [S EXCEPT !.elems[box].width = width, !.elems[box].height = height,
              !.windows = wresize(@, S.elems[box].window, height, width)]

\* UIBox::set_pos.
UIBox_set_pos(S, box, x, y) ==
    [S EXCEPT !.elems[box].x = x, !.elems[box].y = y,
              !.windows = mvwin(@, S.elems[box].window, y, x)]

\* A handler on mouse_event: its event type, what it is (role), the element
\* whose constructor registered it, the Node whose lambda a clickable Button
\* calls (0 for a Button of the application), and what the application's
\* callback does.
Handler(type, role, owner, node, ucb) ==
    [type |-> type, role |-> role, owner |-> owner, node |-> node, ucb |-> ucb]

\* UIButton::UIButton: a Box and a Text on the Box's window, and a Click
\* handler on the event.
UIButton_create(S, len, x, y, node, ucb) ==
    LET Register(S4) ==
            [S4 EXCEPT !.mcalls = Append(@, Handler("Click", "button", S4.last,
                                                    node, ucb))]
        Make(S3, box, text) ==
            Register(Put(S3, [Elem("Button", S3.elems[box].window)
                                 EXCEPT !.composition = <<box, text>>]))
        Size(S2, box) ==
            Make(UIBox_set_dimensions(S2, box, S2.elems[S2.last].width,
                                      S2.elems[S2.last].height),
                 box, S2.last)
        Text(S1) ==
            Size(UIText_create(S1, x, y, len, S1.elems[S1.last].window), S1.last)
    IN Text(UIBox_create(S, 0, 0, 0, 0))

\* UINode::UINode: a Box, a Text, a clickable Button "x" at (0, 0), and the
\* Mousedown, Mouseup and Mousemove handlers.
UINode_create(S, x, y, len) ==
    LET Register(S6, node) ==
            [S6 EXCEPT !.mcalls = @ \o
                <<Handler("Mousedown", "node", node, node, "none"),
                  Handler("Mouseup", "node", node, node, "none"),
                  Handler("Mousemove", "node", node, node, "none")>>]
        Compose(S5, box, text, node) ==
            Register([S5 EXCEPT !.elems[node].clickable = S5.last,
                                !.elems[node].composition = <<box, text, S5.last>>,
                                !.last = node],
                     node)
        Clickable(S4, box, text) ==
            Compose(UIButton_create(S4, 1, 0, 0, S4.last, "none"),
                    box, text, S4.last)
        Make(S3, box, text) ==
            Clickable(Put(S3, [Elem("Node", S3.elems[box].window)
                                  EXCEPT !.x = x, !.y = y]),
                      box, text)
        Size(S2, box) ==
            Make(UIBox_set_dimensions(S2, box, S2.elems[S2.last].width,
                                      S2.elems[S2.last].height),
                 box, S2.last)
        Text(S1) ==
            Size(UIText_create(S1, x, y, len, S1.elems[S1.last].window), S1.last)
    IN Text(UIBox_create(S, 0, 0, 0, 0))

\* ------------------------------------------------------------ rendering
\* One driver call: its name, the surface it acts on, the element whose
\* render() makes it (0: none) and the function that makes it.
Call(op, win, el, by) == [op |-> op, win |-> win, el |-> el, by |-> by]

\* render() of one element: UIBox draws its border and stages its window,
\* UIText prints its label and stages, UILine draws and stages; UIButton and
\* UINode draw nothing.  The first entry marks the call of render() itself.
ElementRender(E, id) ==
    LET e == E[id]
    IN <<Call("render", e.window, id, "render")>> \o
       CASE e.kind = "Box" -> <<Call("box", e.window, id, "render"),
                                Call("wnoutrefresh", e.window, id, "render")>>
         [] e.kind = "Text" -> <<Call("mvwprintw", e.window, id, "render"),
                                 Call("wnoutrefresh", e.window, id, "render")>>
         [] e.kind = "Line" -> <<Call("line", e.window, id, "render"),
                                 Call("wnoutrefresh", e.window, id, "render")>>
         [] OTHER -> <<>>

RECURSIVE render_impl_preorder(_, _)
(* mutant of Renderer::render_impl: the node before its composition *)
render_impl_preorder(E, cs) ==
    IF cs = <<>> THEN <<>>
    ELSE LET c == Head(cs)
         IN ElementRender(E, c)
            \o (IF Len(E[c].composition) > 0
                THEN render_impl_preorder(E, E[c].composition) ELSE <<>>)
            \o render_impl_preorder(E, Tail(cs))

RECURSIVE render_impl_commit(_, _)
(* mutant of Renderer::render_impl: every level of the recursion commits *)
render_impl_commit(E, cs) ==
    IF cs = <<>> THEN <<Call("doupdate", stdscr, 0, "render")>>
    ELSE LET c == Head(cs)
         IN (IF Len(E[c].composition) > 0
             THEN render_impl_commit(E, E[c].composition) ELSE <<>>)
            \o ElementRender(E, c)
            \o render_impl_commit(E, Tail(cs))

RECURSIVE render_impl(_, _)
\* Renderer::render_impl: for each child, its composition first, then itself.
render_impl(E, cs) ==
    IF cs = <<>> THEN <<>>
    ELSE LET c == Head(cs)
         IN (IF Len(E[c].composition) > 0
             THEN render_impl(E, E[c].composition) ELSE <<>>)
            \o ElementRender(E, c)
            \o render_impl(E, Tail(cs))

\* UIContext::batch_render: wnoutrefresh(root), render(children), doupdate().
batch_render(E, roots) ==
    <<Call("wnoutrefresh", stdscr, 0, "batch_render")>>
    \o render_impl(E, roots)
    \o <<Call("doupdate", stdscr, 0, "batch_render")>>

\* ------------------------------------------------------------ hit test
RECURSIVE FirstBox(_, _)
\* The first Box of a composition, 0 when it has none.
FirstBox(E, comp) ==
    IF comp = <<>> THEN 0
    ELSE IF E[Head(comp)].kind = "Box" THEN Head(comp)
    ELSE FirstBox(E, Tail(comp))

(* mutant of the bounds test: the far ends are exclusive *)
InBounds_exclusive(E, W, box, x, y) ==
    LET start == W[E[box].window]
    IN /\ x >= start.x /\ x < start.x + E[box].width
       /\ y >= start.y /\ y < start.y + E[box].height

\* The bounds test: the Box's surface origin as the driver reports it, the
\* Box's cached size, both ends inclusive.
InBounds(E, W, box, x, y) ==
    LET start == W[E[box].window]
    IN /\ x >= start.x /\ x <= start.x + E[box].width
       /\ y >= start.y /\ y <= start.y + E[box].height

\* A candidate whose Box contains the pointer becomes the target and the
\* pointer's offset into the Box is recorded.  D.hits lists the targets the
\* walk has set.
HitTest(E, W, c, box, D) ==
    IF InBounds(E, W, box, D.data.x, D.data.y)
    THEN [D EXCEPT !.data.offset_x = D.data.x - W[E[box].window].x,
                   !.data.offset_y = D.data.y - W[E[box].window].y,
                   !.data.element = c,
                   !.hits = Append(@, c)]
    ELSE D

RECURSIVE handle_click(_, _, _, _)
\* UIContext::handle_click: stop at the first child seen with a target already
\* set; otherwise walk the child's composition, then test the child itself if
\* it is a Button or a Node.
handle_click(E, W, cs, D) ==
    IF cs = <<>> \/ D.data.element # 0 THEN D
    ELSE LET c == Head(cs)
             box == FirstBox(E, E[c].composition)
             Self(D1) ==
                 CASE E[c].kind = "Button" ->
                        handle_click(E, W, Tail(cs),
                                     IF box = 0 THEN D1
                                     ELSE HitTest(E, W, c, box, D1))
                   [] E[c].kind = "Node" ->
                        IF box = 0 THEN D1
                        ELSE handle_click(E, W, Tail(cs), HitTest(E, W, c, box, D1))
                   [] OTHER -> handle_click(E, W, Tail(cs), D1)
         IN Self(IF Len(E[c].composition) > 0
                 THEN handle_click(E, W, E[c].composition, D) ELSE D)

\* The root positions whose bounds contain the pointer: a Box's own surface,
\* a composite's first Box.
RootsContaining(E, W, roots, x, y) ==
    {i \in 1..Len(roots) :
        LET box == IF E[roots[i]].kind = "Box" THEN roots[i]
                   ELSE FirstBox(E, E[roots[i]].composition)
        IN box # 0 /\ InBounds(E, W, box, x, y)}

\* ------------------------------------------------------------ handlers
Abs(n) == IF n < 0 THEN 0 - n ELSE n

\* UILine::create(pos1, pos2) without a window: the line draws on stdscr.
UILine_create(S, p1, p2) ==
    Put(S, [Elem("Line", stdscr) EXCEPT !.pos1 = p1, !.pos2 = p2,
                                        !.width = Abs(p2.x - p1.x) + 1,
                                        !.height = Abs(p2.y - p1.y) + 1])

\* UILine::set_pos: erases the line's window and stores the end points.
UILine_set_pos(S, line, p1, p2) ==
    [S EXCEPT !.trace = Append(@, [op |-> "werase", win |-> S.elems[line].window,
                                   el |-> line, by |-> "set_pos"]),
              !.elems[line].pos1 = p1, !.elems[line].pos2 = p2,
              !.elems[line].width = Abs(p2.x - p1.x) + 1,
              !.elems[line].height = Abs(p2.y - p1.y) + 1]

\* A Node starts a connection line at the pointer.
StartLine(S, n) ==
    LET o == [x |-> S.data.x, y |-> S.data.y]
        Link(S1) == [S1 EXCEPT !.elems[n].current_line = S1.last,
                               !.elems[n].composition = Append(@, S1.last)]
    IN Link(UILine_create([S EXCEPT !.elems[n].line_origin = o], o, o))

(* mutant of dropping the line: current_line is reset and the composition
   keeps its last entry *)
DropLine_keep(S, n) ==
    [S EXCEPT !.elems[n].line_origin = NoCoords,
              !.elems[n].current_line = 0]

\* A Node drops its line: composition.pop_back() and current_line.reset();
\* the line is destroyed when the popped entry was its last other owner.
DropLine(S, n) ==
    LET comp == S.elems[n].composition
        line == S.elems[n].current_line
        E1 == [S.elems EXCEPT ![n].line_origin = NoCoords,
                              ![n].composition = SubSeq(comp, 1, Len(comp) - 1),
                              ![n].current_line = 0]
    IN [S EXCEPT !.elems = IF comp[Len(comp)] = line
                           THEN [i \in DOMAIN E1 \ {line} |-> E1[i]]
                           ELSE E1]

\* What the application's callback does when it runs.
UserCallback(S, ucb) ==
    CASE ucb = "stop" -> [S EXCEPT !.running = FALSE]
      [] ucb = "count" -> [S EXCEPT !.counter = @ + 1]
      [] OTHER -> S

\* The lambda UINode passes to its clickable Button.
NodeClicked(S, n) ==
    LET d == S.data
        e == S.elems[n]
    IN IF e.current_line = 0 /\ d.element # 0
          /\ S.elems[d.element].window = S.elems[e.clickable].window
       THEN StartLine(S, n) ELSE S

\* What a call through a reference to a destroyed object can do: run the
\* callable that was there, do nothing, or end the process.
Outcomes == {"call", "skip", "abort"}

\* The Click handler of a Button.  Its lambda holds `callback` by reference,
\* and `callback` is the by-value parameter of UIButton::create, destroyed
\* when create returned: calling it is undefined.
ButtonClick(S, h, o) ==
    LET d == S.data
    IN IF d.element # 0 /\ S.elems[d.element].window = S.elems[h.owner].window
       THEN CASE o = "abort" -> [S EXCEPT !.undefined = TRUE, !.crashed = TRUE]
              [] o = "skip" -> [S EXCEPT !.undefined = TRUE]
              [] OTHER -> [(IF h.node # 0 THEN NodeClicked(S, h.node)
                            ELSE UserCallback(S, h.ucb))
                             EXCEPT !.undefined = TRUE]
       ELSE S

\* The Mousedown handler of a Node.
NodeMousedown(S, n) ==
    LET d == S.data
        e == S.elems[n]
        Drop(S1) == IF S1.elems[n].current_line # 0 /\ d.element = 0
                    THEN DropLine(S1, n) ELSE S1
    IN Drop(IF e.current_line = 0 /\ d.element # 0
               /\ S.elems[d.element].window = S.elems[e.clickable].window
            THEN StartLine(S, n) ELSE S)

(* mutant of the Mousemove handler: the Node follows the pointer whatever
   element is the target *)
NodeMousemove_any(S, n) ==
    LET d == S.data
        e == S.elems[n]
        nx == d.x - d.offset_x
        ny == d.y - d.offset_y
        box == Head(S.elems[e.clickable].composition)
        Line(S1) ==
            IF d.element = 0 /\ S1.elems[n].current_line # 0
            THEN UILine_set_pos(S1, S1.elems[n].current_line,
                                S1.elems[n].line_origin, [x |-> d.x, y |-> d.y])
            ELSE S1
    IN Line(IF d.element # 0
            THEN [UIBox_set_pos([S EXCEPT !.elems[n].x = nx, !.elems[n].y = ny],
                                box, nx, ny)
                     EXCEPT !.windows = mvwin(@, e.window, ny, nx)]
            ELSE S)

\* The Mousemove handler of a Node: a pressed Node follows the pointer, and
\* with no target the Node's line follows it.
NodeMousemove(S, n) ==
    LET d == S.data
        e == S.elems[n]
        nx == d.x - d.offset_x
        ny == d.y - d.offset_y
        box == Head(S.elems[e.clickable].composition)
        Line(S1) ==
            IF d.element = 0 /\ S1.elems[n].current_line # 0
            THEN UILine_set_pos(S1, S1.elems[n].current_line,
                                S1.elems[n].line_origin, [x |-> d.x, y |-> d.y])
            ELSE S1
    IN Line(IF d.element # 0 /\ S.elems[d.element].window = e.window
            THEN [UIBox_set_pos([S EXCEPT !.elems[n].x = nx, !.elems[n].y = ny],
                                box, nx, ny)
                     EXCEPT !.windows = mvwin(@, e.window, ny, nx)]
            ELSE S)

\* One call x.func(this->data) of a registered handler.
RunHandler(S, h, o) ==
    CASE h.role = "button" -> ButtonClick(S, h, o)
      [] h.role = "node" /\ h.type = "Mousedown" -> NodeMousedown(S, h.owner)
      [] h.role = "node" /\ h.type = "Mousemove" -> NodeMousemove(S, h.owner)
      [] OTHER -> S

RECURSIVE MouseUpdate(_, _, _, _)
\* GenericEvent::update of mouse_event: the handlers of the type, in add order.
MouseUpdate(S, type, i, o) ==
    IF i > Len(S.mcalls) \/ S.crashed THEN S
    ELSE MouseUpdate(IF S.mcalls[i].type = type
                     THEN RunHandler(S, S.mcalls[i], o) ELSE S,
                     type, i + 1, o)

RECURSIVE ListenersUpdate(_, _, _, _)
\* Observer::notify's loop over the listeners of a key; screen_event has no
\* handler for a mouse type.
ListenersUpdate(S, ls, type, o) ==
    IF ls = <<>> THEN S
    ELSE ListenersUpdate(IF Head(ls) = "mouse_event"
                         THEN MouseUpdate(S, type, 1, o) ELSE S,
                         Tail(ls), type, o)

\* observer().notify(type) from the input loop.  The entry of the trace holds
\* in el the element of the payload the handlers are called with.
UINotify(S, type, o) ==
    IF S.crashed THEN S
    ELSE ListenersUpdate(
            [S EXCEPT !.handlers = Touch(@, type),
                      !.trace = Append(@, [op |-> type, win |-> stdscr,
                                           el |-> S.data.element,
                                           by |-> "notify"])],
            SubscriberList(S.handlers, type), type, o)

\* The Event::Type keys main wires to the two listeners.
MainWiring ==
    Observer_sub(Observer_sub(Observer_sub(Observer_sub(Observer_sub(<<>>,
        "Mousemove", "mouse_event"), "Mousedown", "mouse_event"),
        "Mouseup", "mouse_event"), "Click", "mouse_event"),
        "Resize", "screen_event")

\* ------------------------------------------------------------ the loop body
\* The button bits of a mouse record.
BStates == SUBSET {"PRESSED", "RELEASED"}

\* mouse_event.data.element.reset(), unless the process has ended.
ElementReset(S) == IF S.crashed THEN S ELSE [S EXCEPT !.data.element = 0]

(* mutant of the release branch: Click is notified before Mouseup *)
ReleaseBranch_clickfirst(S, o) ==
    ElementReset(UINotify(UINotify(S, "Click", o), "Mouseup", o))

(* mutant of the release branch: the element is reset before Click *)
ReleaseBranch_resetfirst(S, o) ==
    UINotify(ElementReset(UINotify(S, "Mouseup", o)), "Click", o)

\* The branch of a record with BUTTON1_RELEASED: notify Mouseup, notify Click,
\* reset the element.
ReleaseBranch(S, o) ==
    ElementReset(UINotify(UINotify(S, "Mouseup", o), "Click", o))

(* mutant of the loop body: on a press Mousedown is notified before the
   hit test *)
MouseRecord_downfirst(S, x, y, b, o) ==
    LET Walked(S2, D) ==
            [S2 EXCEPT !.data = D.data,
                       !.press = [walked |-> TRUE, before |-> S2.data.element,
                                  inside |-> RootsContaining(S2.elems, S2.windows,
                                                             S2.children, x, y),
                                  hits |-> D.hits]]
        Test(S2) ==
            Walked(S2, handle_click(S2.elems, S2.windows, S2.children,
                                    [data |-> S2.data, hits |-> <<>>]))
        Buttons(S2) ==
            IF "PRESSED" \in b
            THEN Test(UINotify(S2, "Mousedown", o))
            ELSE IF "RELEASED" \in b
                 THEN ReleaseBranch(S2, o)
                 ELSE S2
    IN Buttons(UINotify([S EXCEPT !.data.x = x, !.data.y = y,
                                  !.trace = <<[op |-> "getmouse", win |-> stdscr,
                                               el |-> 0, by |-> "start"]>>],
                        "Mousemove", o))

\* The body of the getmouse loop for one record.
MouseRecord(S, x, y, b, o) ==
    LET Walked(S2, D) ==
            [S2 EXCEPT !.data = D.data,
                       !.press = [walked |-> TRUE, before |-> S2.data.element,
                                  inside |-> RootsContaining(S2.elems, S2.windows,
                                                             S2.children, x, y),
                                  hits |-> D.hits]]
        Buttons(S2) ==
            IF "PRESSED" \in b
            THEN UINotify(Walked(S2, handle_click(S2.elems, S2.windows, S2.children,
                                                  [data |-> S2.data, hits |-> <<>>])),
                          "Mousedown", o)
            ELSE IF "RELEASED" \in b
                 THEN ReleaseBranch(S2, o)
                 ELSE S2
    IN Buttons(UINotify([S EXCEPT !.data.x = x, !.data.y = y,
                                  !.trace = <<[op |-> "getmouse", win |-> stdscr,
                                               el |-> 0, by |-> "start"]>>],
                        "Mousemove", o))

\* The element the handlers of a type were given in a sequence of calls, 0
\* when the type was not notified.
SeenBy(f, type) ==
    LET n == SelectSeq(f, LAMBDA c : c.by = "notify" /\ c.op = type)
    IN IF n = <<>> THEN 0 ELSE n[1].el

\* The record of the last press and its release after a record with button
\* bits b has left the world S.
PairAfter(p, b, S) ==
    IF "PRESSED" \in b
    THEN [NoPair EXCEPT !.pressed = TRUE, !.down = SeenBy(S.trace, "Mousedown"),
                        !.hit = \E i \in S.press.inside :
                                   S.children[i] = SeenBy(S.trace, "Mousedown"),
                        !.dx = S.data.offset_x, !.dy = S.data.offset_y]
    ELSE IF p.closed \/ ~p.pressed THEN NoPair
    ELSE IF "RELEASED" \in b
         THEN [p EXCEPT !.closed = TRUE, !.up = SeenBy(S.trace, "Mouseup"),
                        !.click = SeenBy(S.trace, "Click")]
         ELSE [p EXCEPT !.moved = TRUE]

(* mutant of the loop condition: getmouse fails with records still held *)
MouseQueueEmpty_always(p) == p >= 0

\* getmouse(&event) == OK fails when the driver holds no more records.
MouseQueueEmpty(p) == p = 0

\* ------------------------------------------------------------ inputs
\* Where the application puts its elements, and where the pointer goes.
Origins == {[x |-> 0, y |-> 0], [x |-> 2, y |-> 1]}
BoxOrigins == {[x |-> 0, y |-> 0], [x |-> 5, y |-> 2]}
NodeOrigins == {[x |-> 2, y |-> 1], [x |-> 5, y |-> 2]}
BoxSize == [w |-> 10, h |-> 5]
LabelLen == 2
Points == {[x |-> 0, y |-> 0], [x |-> 3, y |-> 3], [x |-> 6, y |-> 3]}
InputKeys == {"q", "a", "KEY_MOUSE", "KEY_RESIZE"}

\* ------------------------------------------------------------ actions
\* ctx->add_child(el), or parent->composition.emplace_back(el).
Attach(S, parent, id) ==
    IF parent = 0
    THEN /\ children' = Append(children, id)
         /\ elems' = S.elems
    ELSE /\ children' = children
         /\ elems' = [S.elems EXCEPT ![parent].composition = Append(@, id)]

\* The application is still setting up, and the bounds leave room for the
\* element: nested elements are only built for the Renderer.
CanAdd(parent, cost) ==
    /\ pc = "setup"
    /\ Cardinality(DOMAIN elems) + cost <= MaxElems
    /\ parent = 0 => Len(children) < MaxRoots

AddBox(parent, x, y, w, h) ==
    /\ CanAdd(parent, 1)
    /\ \E S \in {UIBox_create(World, x, y, w, h)} :
          /\ Attach(S, parent, S.last)
          /\ windows' = S.windows
          /\ mcalls' = S.mcalls
    /\ frame' = <<>>
    /\ UNCHANGED <<loopVars, busVars>>

AddLine(parent, p1, p2) ==
    /\ CanAdd(parent, 1)
    /\ \E S \in {UILine_create(World, p1, p2)} :
          /\ Attach(S, parent, S.last)
          /\ windows' = S.windows
          /\ mcalls' = S.mcalls
    /\ frame' = <<>>
    /\ UNCHANGED <<loopVars, busVars>>

AddButton(parent, x, y, len, ucb) ==
    /\ CanAdd(parent, 3)
    /\ \E S \in {UIButton_create(World, len, x, y, 0, ucb)} :
          /\ Attach(S, parent, S.last)
          /\ windows' = S.windows
          /\ mcalls' = S.mcalls
    /\ frame' = <<>>
    /\ UNCHANGED <<loopVars, busVars>>

AddText(parent, x, y, len) ==
    /\ CanAdd(parent, 1)
    /\ \E S \in {UIText_create_own(World, x, y, len)} :
          /\ Attach(S, parent, S.last)
          /\ windows' = S.windows
          /\ mcalls' = S.mcalls
    /\ frame' = <<>>
    /\ UNCHANGED <<loopVars, busVars>>

AddNode(parent, x, y, len) ==
    /\ CanAdd(parent, 6)
    /\ \E S \in {UINode_create(World, x, y, len)} :
          /\ Attach(S, parent, S.last)
          /\ windows' = S.windows
          /\ mcalls' = S.mcalls
    /\ frame' = <<>>
    /\ UNCHANGED <<loopVars, busVars>>

\* main subscribes the two listeners before it starts the loop.
Wire ==
    /\ pc = "setup"
    /\ DOMAIN handlers = {}
    /\ handlers' = MainWiring
    /\ UNCHANGED <<calls, em_handlers, invoked, ub, lastOp, subscribed,
                   registered, serial>>
    /\ UNCHANGED uiVars

\* A call of Renderer::render on the root list.
Render ==
    /\ pc = "setup"
    /\ frame' = render_impl(elems, children)
    /\ UNCHANGED <<elems, windows, children, mcalls, loopVars, busVars>>

\* A call of UIContext::batch_render.
BatchRender ==
    /\ pc = "setup"
    /\ frame' = batch_render(elems, children)
    /\ UNCHANGED <<elems, windows, children, mcalls, loopVars, busVars>>

\* UIContext::start up to its first wgetch.
Start ==
    /\ pc = "setup"
    /\ pc' = "read"
    /\ frame' = batch_render(elems, children)
    /\ UNCHANGED <<elems, windows, children, mcalls, running, mdata, pending,
                   cycle, press, pair, screen, sdata, resized, session, counter,
                   busVars>>

(* mutant of the loop condition: the flag is not looked at *)
is_running_always(r) == TRUE

\* ScreenContext::is_running, the condition of the loop of start.
is_running(r) == r

\* The loop condition fails: start returns.
Exit ==
    /\ pc = "read"
    /\ ~is_running(running)
    /\ pc' = "done"
    /\ UNCHANGED <<treeVars, running, mdata, pending, cycle, press, pair,
                   screen, sdata, resized, session, counter, busVars>>

\* The terminal sizes a resize can leave.
TermSize(W) == [w |-> W[stdscr].w, h |-> W[stdscr].h]

\* The driver handles a terminal resize inside wgetch: stdscr takes the new
\* size before KEY_RESIZE is returned.
resizeterm(W, sz) == [W EXCEPT ![stdscr].w = sz.w, ![stdscr].h = sz.h]

\* The application's handler on screen_event: it gets the payload and reads
\* the context's cached width and height.
ResizeHandler(sd, scr) ==
    [width |-> sd.width, height |-> sd.height,
     ctx_width |-> get_width(scr), ctx_height |-> get_height(scr)]

\* observer().notify(Resize): screen_event is updated when it is subscribed.
ResizeNotify(R, h) ==
    [R EXCEPT !.resized =
                 IF \E i \in 1..Len(SubscriberList(h, "Resize")) :
                       SubscriberList(h, "Resize")[i] = "screen_event"
                 THEN ResizeHandler(R.sdata, R.screen) ELSE @,
              !.calls = Append(@, Call("Resize", stdscr, 0, "notify"))]

\* screen_event.data.height = get_height(); .width = get_width().
ResizePayload(R) ==
    [R EXCEPT !.sdata = [width |-> get_width(R.screen),
                         height |-> get_height(R.screen)]]

(* mutant of the resize branch: Resize is notified before the dimensions are
   read again *)
ResizeBranch_notifyfirst(R, W, h) ==
    [ResizeNotify(ResizePayload(R), h)
        EXCEPT !.screen = update_dimensions(W, R.screen),
               !.calls = Append(@, Call("getmaxyx", stdscr, 0,
                                        "update_dimensions"))]

\* The KEY_RESIZE branch of start: update_dimensions, fill the payload, notify.
ResizeBranch(R, W, h) ==
    ResizeNotify(
        ResizePayload([R EXCEPT !.screen = update_dimensions(W, R.screen),
                                !.calls = Append(@, Call("getmaxyx", stdscr, 0,
                                                         "update_dimensions"))]),
        h)

\* wgetch returns c; with KEY_MOUSE the driver holds n records, with
\* KEY_RESIZE the terminal has the size sz.  'q' stops the loop; any other key
\* restages the root, and KEY_RESIZE runs the resize branch.
ReadInput(c, n, sz) ==
    /\ pc = "read"
    /\ is_running(running)
    /\ c # "KEY_MOUSE" => n = 0
    /\ c # "KEY_RESIZE" => sz = TermSize(windows)
    /\ IF c = "q"
       THEN /\ running' = FALSE
            /\ pc' = "done"
            /\ UNCHANGED <<frame, pending, cycle, press, handlers, windows,
                           screen, sdata, resized>>
       ELSE /\ running' = running
            /\ pc' = "mouse"
            /\ pending' = n
            /\ cycle' = [NoCycle EXCEPT !.polled = TRUE, !.burst = n, !.key = c]
            /\ press' = NoPress
            /\ windows' = IF c = "KEY_RESIZE" THEN resizeterm(windows, sz)
                          ELSE windows
            /\ \E R \in {[screen |-> screen, sdata |-> sdata,
                          resized |-> resized,
                          calls |-> <<Call("touchwin", stdscr, 0, "start"),
                                      Call("wnoutrefresh", stdscr, 0, "start")>>]} :
                  \E R1 \in {IF c = "KEY_RESIZE"
                             THEN ResizeBranch(R, windows', handlers) ELSE R} :
                     /\ frame' = R1.calls
                     /\ screen' = R1.screen
                     /\ sdata' = R1.sdata
                     /\ resized' = R1.resized
            /\ handlers' = IF c = "KEY_RESIZE" THEN Touch(handlers, "Resize")
                           ELSE handlers
    /\ UNCHANGED <<elems, children, mcalls, mdata, pair, session, counter>>
    /\ UNCHANGED <<calls, em_handlers, invoked, ub, lastOp, subscribed,
                   registered, serial>>

\* getmouse returns one record, and the loop body runs for it; the outcome o
\* is a choice only when the record makes the undefined call.
GetMouse(x, y, b, o) ==
    /\ pc = "mouse"
    /\ ~MouseQueueEmpty(pending)
    /\ \E S \in {MouseRecord(World, x, y, b, o)} :
          /\ o # "call" => S.undefined
          /\ elems' = S.elems
          /\ windows' = S.windows
          /\ mcalls' = S.mcalls
          /\ mdata' = S.data
          /\ running' = S.running
          /\ counter' = S.counter
          /\ handlers' = S.handlers
          /\ frame' = S.trace
          /\ press' = S.press
          /\ pair' = PairAfter(pair, b, S)
          /\ pc' = IF S.crashed THEN "aborted" ELSE "mouse"
          /\ cycle' = [cycle EXCEPT !.records = @ + 1,
                                    !.late = @ \/ cycle.commits > 0,
                                    !.bits = b,
                                    !.stopped = IF running /\ ~S.running
                                                THEN cycle.records + 1 ELSE @]
    /\ pending' = pending - 1
    /\ UNCHANGED <<children, screen, sdata, resized, session>>
    /\ UNCHANGED <<calls, em_handlers, invoked, ub, lastOp, subscribed,
                   registered, serial>>

\* The commits to the physical screen in a sequence of calls.
Commits(f) == Cardinality({i \in 1..Len(f) : f[i].op = "doupdate"})

(* mutant of the end of an iteration: nothing is painted once stop() was
   called *)
Paint_unlessStopped ==
    /\ pc = "mouse"
    /\ MouseQueueEmpty(pending)
    /\ pc' = "read"
    /\ frame' = IF running THEN batch_render(elems, children) ELSE frame
    /\ cycle' = [cycle EXCEPT !.commits = @ + Commits(frame'), !.bits = {},
                              !.key = ""]
    /\ press' = NoPress
    /\ pair' = IF pair.closed THEN NoPair ELSE pair
    /\ UNCHANGED <<elems, windows, children, mcalls, running, mdata, pending,
                   screen, sdata, resized, session, counter, busVars>>

\* getmouse fails: the iteration ends with batch_render.
Paint ==
    /\ pc = "mouse"
    /\ MouseQueueEmpty(pending)
    /\ pc' = "read"
    /\ frame' = batch_render(elems, children)
    /\ cycle' = [cycle EXCEPT !.commits = @ + Commits(frame'), !.bits = {},
                              !.key = ""]
    /\ press' = NoPress
    /\ pair' = IF pair.closed THEN NoPair ELSE pair
    /\ UNCHANGED <<elems, windows, children, mcalls, running, mdata, pending,
                   screen, sdata, resized, session, counter, busVars>>

\* Where a new element can go: the root list (0) or a composite's composition.
Parents == {0} \cup {i \in DOMAIN elems : elems[i].kind \in {"Button", "Node"}}

\* Renderer::render and batch_render called on forests built from every kind
\* of element, nested in any composite.
NextRender ==
    \/ \E p \in Parents : AddBox(p, 0, 0, BoxSize.w, BoxSize.h)
    \/ \E p \in Parents : AddLine(p, NoCoords, NoCoords)
    \/ \E p \in Parents : AddButton(p, 0, 0, LabelLen, "stop")
    \/ \E p \in Parents : AddNode(p, 0, 0, LabelLen)
    \/ Render
    \/ BatchRender

SpecRender == Init /\ [][NextRender]_vars

\* The outcomes a record with button bits b can have: only a release with a
\* target set dispatches Click to a handler that makes the undefined call.
OutcomesOf(b) ==
    IF "RELEASED" \in b /\ "PRESSED" \notin b /\ mdata.element # 0
    THEN Outcomes ELSE {"call"}

\* The tree of the input loop's application has room for cost more elements.
Room(cost) == Cardinality(DOMAIN elems) + cost <= MaxTree

\* An application that adds Boxes, Buttons and Nodes as roots, wires the
\* listeners or not, and runs the loop on keys and mouse records; the terminal
\* keeps its size.
Next ==
    \/ \E o \in BoxOrigins :
          Room(1) /\ AddBox(0, o.x, o.y, BoxSize.w, BoxSize.h)
    \/ \E o \in Origins :
          Room(3) /\ AddButton(0, o.x, o.y, LabelLen, "stop")
    \/ \E o \in NodeOrigins :
          Room(6) /\ AddNode(0, o.x, o.y, LabelLen)
    \/ Wire
    \/ Start
    \/ \E c \in InputKeys \ {"KEY_RESIZE"}, n \in 0..MaxBurst :
          ReadInput(c, n, TermSize(windows))
    \/ \E p \in Points, b \in BStates :
          \E o \in OutcomesOf(b) : GetMouse(p.x, p.y, b, o)
    \/ Paint
    \/ Exit

Spec == Init /\ [][Next]_vars

\* The sizes the terminal is resized to: the initial one and a larger one, so
\* that every surface stays on the screen.
Sizes == {[w |-> COLS, h |-> LINES], [w |-> COLS + 4, h |-> LINES + 2]}

\* An application of Buttons that runs the loop on every key, on mouse
\* records and on terminal resizes.
NextResize ==
    \/ \E o \in Origins :
          Room(3) /\ AddButton(0, o.x, o.y, LabelLen, "stop")
    \/ Wire
    \/ Start
    \/ \E c \in InputKeys, n \in 0..MaxBurst, sz \in Sizes : ReadInput(c, n, sz)
    \/ \E p \in Points, b \in BStates :
          \E o \in OutcomesOf(b) : GetMouse(p.x, p.y, b, o)
    \/ Paint
    \/ Exit

SpecResize == Init /\ [][NextResize]_vars

\* The same application; start is a sequential program, so a step that does
\* not wait for input is taken: the next record of a burst is handled, the
\* iteration is painted, and the loop is left when its condition fails.  Only
\* the read of the next input can wait for ever.
SpecReturn ==
    /\ Init
    /\ [][NextResize]_vars
    /\ WF_vars(\E p \in Points, b \in BStates :
                  \E o \in OutcomesOf(b) : GetMouse(p.x, p.y, b, o))
    /\ WF_vars(Paint)
    /\ WF_vars(Exit)

\* ------------------------------------------------------------ the process
\* main before `new UIContext()`: no session, no surface, no element.
InitBoot ==
    /\ BusInit
    /\ elems = <<>>
    /\ windows = [w \in {} |-> 0]
    /\ children = <<>>
    /\ mcalls = <<>>
    /\ frame = <<>>
    /\ pc = "boot"
    /\ running = FALSE
    /\ mdata = MouseData
    /\ pending = 0
    /\ cycle = NoCycle
    /\ press = NoPress
    /\ pair = NoPair
    /\ screen = [width |-> 0, height |-> 0]
    /\ sdata = ScreenData
    /\ resized = NoResize
    /\ session = NoSession
    /\ counter = 0

\* The surfaces after initscr() has returned stdscr.
initscr == [w \in {stdscr} |-> [x |-> 0, y |-> 0, w |-> COLS, h |-> LINES]]

(* mutant of the constructor: a missing window is not an error *)
Construct_nothrow(w) ==
    /\ pc = "boot"
    /\ pc' = "setup"
    /\ running' = TRUE
    /\ session' = configure_ncurses(w).session
    /\ windows' = initscr
    /\ screen' = update_dimensions(windows', screen)
    /\ UNCHANGED <<elems, children, mcalls, frame, mdata, pending, cycle,
                   press, pair, sdata, resized, counter, busVars>>

\* `new UIContext()`: the members are initialised (_running false, the
\* dimensions 0) and configure_ncurses runs with the window initscr() yields;
\* when it throws, nothing catches the exception and main is left.
Construct(w) ==
    /\ pc = "boot"
    /\ \E C \in {configure_ncurses(w)} :
          /\ pc' = IF C.thrown THEN "failed" ELSE "setup"
          /\ running' = C.running
          /\ session' = C.session
          /\ windows' = IF C.thrown THEN windows ELSE initscr
          /\ screen' = IF C.thrown THEN screen
                       ELSE update_dimensions(windows', screen)
    /\ UNCHANGED <<elems, children, mcalls, frame, mdata, pending, cycle,
                   press, pair, sdata, resized, counter, busVars>>

\* ScreenContext::cleanup_ncurses: the mouse mode, the cursor and the old
\* mouse mask are restored, the window is deleted when there is one, and the
\* session is ended.
cleanup_ncurses(s) ==
    [window |-> IF s.window = "window" THEN "deleted" ELSE s.window,
     teardowns |-> s.teardowns + 1]

\* The calls cleanup_ncurses makes.
CleanupCalls(s) ==
    <<Call("mouse_off", stdscr, 0, "cleanup_ncurses"),
      Call("curs_set", stdscr, 0, "cleanup_ncurses"),
      Call("mousemask", stdscr, 0, "cleanup_ncurses")>>
    \o (IF s.window = "window"
        THEN <<Call("delwin", stdscr, 0, "cleanup_ncurses")>> ELSE <<>>)
    \o <<Call("endwin", stdscr, 0, "cleanup_ncurses")>>

\* start has returned: main deletes the context, whose destructor runs
\* cleanup_ncurses, and returns.
Delete ==
    /\ pc = "done"
    /\ pc' = "exited"
    /\ session' = cleanup_ncurses(session)
    /\ frame' = CleanupCalls(session)
    /\ UNCHANGED <<elems, windows, children, mcalls, running, mdata, pending,
                   cycle, press, pair, screen, sdata, resized, counter,
                   busVars>>

\* wgetch returns KEY_RESIZE and the application's Resize handler throws:
\* neither notify, start nor main catches, so the exception leaves main and
\* the process is terminated; `delete ctx` is not reached.
HandlerThrows(sz) ==
    /\ pc = "read"
    /\ is_running(running)
    /\ IsSubscribed(handlers, "Resize", "screen_event")
    /\ pc' = "terminated"
    /\ cycle' = [NoCycle EXCEPT !.polled = TRUE, !.key = "KEY_RESIZE"]
    /\ windows' = resizeterm(windows, sz)
    /\ \E R \in {[screen |-> screen, sdata |-> sdata, resized |-> resized,
                  calls |-> <<Call("touchwin", stdscr, 0, "start"),
                              Call("wnoutrefresh", stdscr, 0, "start")>>]} :
          \E R1 \in {ResizeBranch(R, windows', handlers)} :
             /\ frame' = R1.calls
             /\ screen' = R1.screen
             /\ sdata' = R1.sdata
             /\ resized' = R1.resized
    /\ UNCHANGED <<elems, children, mcalls, running, mdata, pending, press,
                   pair, session, counter, busVars>>

\* main: the context is constructed, Buttons are added, the listeners are
\* wired, start runs on keys, mouse records and resizes, and the context is
\* deleted when start has returned.
NextBoot ==
    \/ \E w \in InitscrResults : Construct(w)
    \/ \E o \in Origins :
          Room(3) /\ AddButton(0, o.x, o.y, LabelLen, "stop")
    \/ Wire
    \/ Start
    \/ \E c \in InputKeys, n \in 0..MaxBurst, sz \in Sizes : ReadInput(c, n, sz)
    \/ \E p \in Points, b \in BStates :
          \E o \in OutcomesOf(b) : GetMouse(p.x, p.y, b, o)
    \/ Paint
    \/ Exit
    \/ \E sz \in Sizes : HandlerThrows(sz)
    \/ Delete

SpecBoot == InitBoot /\ [][NextBoot]_vars

\* ------------------------------------------------------------ geometry
\* UIBox::get_width and get_height: the cached size.
UIBox_get_width(E, box) == E[box].width
UIBox_get_height(E, box) == E[box].height

\* UIBox::get_pos: the cached position.
UIBox_get_pos(E, box) == [x |-> E[box].x, y |-> E[box].y]

\* The widths and heights the application passes: the default of
\* UIBox::create, and a size that fits the screen.
Dims == {0, 2}

\* A call of UIBox::set_dimensions on a Box the application holds.
SetDimensions(box, w, h) ==
    /\ pc = "setup"
    /\ box \in DOMAIN elems
    /\ elems[box].kind = "Box"
    /\ \E S \in {UIBox_set_dimensions(World, box, w, h)} :
          /\ elems' = S.elems
          /\ windows' = S.windows
    /\ frame' = <<>>
    /\ UNCHANGED <<children, mcalls, loopVars, busVars>>

\* An application that creates Boxes and resizes them, with any of the sizes,
\* and creates Texts with windows of their own.
NextGeometry ==
    \/ \E w \in Dims, h \in Dims : AddBox(0, 0, 0, w, h)
    \/ \E o \in Origins : AddText(0, o.x, o.y, LabelLen)
    \/ \E box \in DOMAIN elems, w \in Dims, h \in Dims : SetDimensions(box, w, h)

SpecGeometry == Init /\ [][NextGeometry]_vars

\* ------------------------------------------------------------ clicks
\* The clicks the application's counter is followed for.
MaxClicks == 2

\* An application of Buttons whose callback increments a counter; it runs the
\* loop on keys and mouse records, and only 'q' ends the loop.
NextClick ==
    \/ \E o \in Origins :
          Room(3) /\ AddButton(0, o.x, o.y, LabelLen, "count")
    \/ Wire
    \/ Start
    \/ \E c \in InputKeys \ {"KEY_RESIZE"}, n \in 0..MaxBurst :
          ReadInput(c, n, TermSize(windows))
    \/ \E p \in Points, b \in BStates :
          \E o \in OutcomesOf(b) :
             counter < MaxClicks /\ GetMouse(p.x, p.y, b, o)
    \/ Paint

SpecClick == Init /\ [][NextClick]_vars

\* ctx->add_child(UINode::create(...)) while the root list has room and no
\* more than two trees' worth of elements are made.
AddRootNode(x, y, len) ==
    /\ pc = "setup"
    /\ Len(children) < MaxRoots
    /\ Cardinality(DOMAIN elems) + 6 <= 2 * MaxTree
    /\ \E S \in {UINode_create(World, x, y, len)} :
          /\ Attach(S, 0, S.last)
          /\ windows' = S.windows
          /\ mcalls' = S.mcalls
    /\ frame' = <<>>
    /\ UNCHANGED <<loopVars, busVars>>

\* An application whose roots are Nodes, running the loop on mouse records;
\* records are followed only when the listeners are wired.
NextNodes ==
    \/ \E o \in NodeOrigins : AddRootNode(o.x, o.y, LabelLen)
    \/ Wire
    \/ Start
    \/ \E n \in 0..MaxBurst : ReadInput("KEY_MOUSE", n, TermSize(windows))
    \/ \E p \in Points \ {[x |-> 0, y |-> 0]}, b \in BStates :
          \E o \in OutcomesOf(b) :
             DOMAIN handlers # {} /\ GetMouse(p.x, p.y, b, o)
    \/ Paint

SpecNodes == Init /\ [][NextNodes]_vars

\* ------------------------------------------------------------ the root list
\* ScreenContext::add_child: a null pointer is ignored, any other is appended.
add_child(cs, el) == IF el = 0 THEN cs ELSE Append(cs, el)

\* std::find_if from the front: the first index that holds p, 0 for end().
FindFirst(cs, p) ==
    IF \E i \in 1..Len(cs) : cs[i] = p
    THEN CHOOSE i \in 1..Len(cs) :
            cs[i] = p /\ \A j \in 1..(i - 1) : cs[j] # p
    ELSE 0

\* ScreenContext::del_child: null is ignored; the first entry whose pointer is
\* p is erased, if there is one.
del_child(cs, p) ==
    IF p = 0 THEN cs
    ELSE LET i == FindFirst(cs, p)
         IN IF i = 0 THEN cs
            ELSE SubSeq(cs, 1, i - 1) \o SubSeq(cs, i + 1, Len(cs))

\* ScreenContext::clear_children.
clear_children(cs) == <<>>

\* The pointers the application can pass: null, and any element it has made
\* (a root, a former root or a member of a composition).
Pointers == {0} \cup DOMAIN elems

\* ctx->add_child(el); the application keeps its own pointer to el.
AddChild(el) ==
    /\ pc = "setup"
    /\ Len(children) < MaxList
    /\ children' = add_child(children, el)
    /\ frame' = <<Call("add_child", stdscr, el, "main")>>
    /\ UNCHANGED <<elems, windows, mcalls, loopVars, busVars>>

\* ctx->del_child(p).
DelChild(p) ==
    /\ pc = "setup"
    /\ children' = del_child(children, p)
    /\ frame' = <<Call("del_child", stdscr, p, "main")>>
    /\ UNCHANGED <<elems, windows, mcalls, loopVars, busVars>>

\* ctx->clear_children().
ClearChildren ==
    /\ pc = "setup"
    /\ children' = clear_children(children)
    /\ frame' = <<Call("clear_children", stdscr, 0, "main")>>
    /\ UNCHANGED <<elems, windows, mcalls, loopVars, busVars>>

\* An application that makes Boxes and Buttons and calls add_child, del_child
\* and clear_children with any pointer it holds.
NextRoots ==
    \/ Room(1) /\ AddBox(0, 0, 0, BoxSize.w, BoxSize.h)
    \/ Room(3) /\ AddButton(0, 0, 0, LabelLen, "stop")
    \/ \E el \in Pointers : AddChild(el)
    \/ \E p \in Pointers : DelChild(p)
    \/ ClearChildren

SpecRoots == Init /\ [][NextRoots]_vars

\* ------------------------------------------------------------ the string-keyed revision
\* render() of one element of the string-keyed revision: UIBox and UIText
\* draw, touch and stage their window, UIButton draws nothing.
LegacyElementRender(E, id) ==
    LET e == E[id]
    IN <<Call("render", e.window, id, "render")>> \o
       CASE e.kind = "Box" -> <<Call("box", e.window, id, "render"),
                                Call("touchwin", e.window, id, "render"),
                                Call("wnoutrefresh", e.window, id, "render")>>
         [] e.kind = "Text" -> <<Call("mvwprintw", e.window, id, "render"),
                                 Call("touchwin", e.window, id, "render"),
                                 Call("wnoutrefresh", e.window, id, "render")>>
         [] OTHER -> <<>>

RECURSIVE legacy_render(_, _, _)
\* UIContext::render(__children) from its i-th child on: wnoutrefresh(window)
\* first; for each child render(child->composition) when it has one, then
\* child->render(); doupdate() last.
legacy_render(E, cs, i) ==
    (IF i = 1 THEN <<Call("wnoutrefresh", stdscr, 0, "render")>> ELSE <<>>)
    \o (IF i > Len(cs) THEN <<Call("doupdate", stdscr, 0, "render")>>
        ELSE (IF Len(E[cs[i]].composition) > 0
              THEN legacy_render(E, E[cs[i]].composition, 1) ELSE <<>>)
             \o LegacyElementRender(E, cs[i])
             \o legacy_render(E, cs, i + 1))

\* UIButton() of the string-keyed revision: a UIBox and a UIText, each with a
\* window of its own of 10 by 5 at (0, 0); the Button's own window is null
\* (-1 here).
LegacyButton_create(S) ==
    LET Make(S2, box) ==
            Put(S2, [Elem("Button", -1) EXCEPT !.composition = <<box, S2.last>>])
        Text(S1) ==
            Make(Put([S1 EXCEPT !.windows =
                         [i \in DOMAIN S1.windows \cup {FreshWin(S1.windows)} |->
                             IF i \in DOMAIN S1.windows THEN S1.windows[i]
                             ELSE newwin(S1.windows, BoxSize.h, BoxSize.w, 0, 0)]],
                     [Elem("Text", FreshWin(S1.windows))
                         EXCEPT !.width = BoxSize.w, !.height = BoxSize.h]),
                 S1.last)
    IN Text(UIBox_create(S, 0, 0, BoxSize.w, BoxSize.h))

\* ctx.add_child(std::make_shared<UIButton>()).
LegacyAddButton ==
    /\ CanAdd(0, 3)
    /\ \E S \in {LegacyButton_create(World)} :
          /\ Attach(S, 0, S.last)
          /\ windows' = S.windows
          /\ mcalls' = S.mcalls
    /\ frame' = <<>>
    /\ UNCHANGED <<loopVars, busVars>>

RECURSIVE LegacyPress(_, _, _, _, _)
\* The press loop over the roots i.. : every root of type Box, TextiBox or
\* Button is tested against the pointer, far ends included, and a match
\* stores the offset and the element; the loop has no break.  A Button is
\* cast to a UIBox it is not, and its window is null: whether its test
\* succeeds is undefined (u).
LegacyPress(W, cs, D, i, u) ==
    IF i > Len(cs) THEN D
    ELSE LET c == cs[i]
             e == World.elems[c]
             start == IF e.kind = "Box" THEN W[e.window] ELSE [x |-> -1, y |-> -1]
             match == IF e.kind = "Box"
                      THEN /\ D.x >= start.x /\ D.x <= start.x + e.width
                           /\ D.y >= start.y /\ D.y <= start.y + e.height
                      ELSE e.kind = "Button" /\ u
         IN LegacyPress(W, cs,
                        IF match
                        THEN [D EXCEPT !.offset_x = D.x - start.x,
                                       !.offset_y = D.y - start.y,
                                       !.element = c]
                        ELSE D,
                        i + 1, u)

\* The body of the getmouse loop for one record: m_e.x and m_e.y, the
\* dispatch of mousemove, and for a press the dispatch of mousedown and then
\* the press loop, for a release the dispatches of mouseup and click.  The
\* entries of the dispatches carry m_e.element as it is when they are made.
LegacyRecord(D, W, cs, x, y, b, u) ==
    LET D1 == [D EXCEPT !.x = x, !.y = y]
        Dispatch(name) == Call(name, stdscr, D1.element, "dispatch")
        moved == <<Call("getmouse", stdscr, 0, "start"), Dispatch("mousemove")>>
    IN IF "PRESSED" \in b
       THEN [data |-> LegacyPress(W, cs, D1, 1, u),
             trace |-> Append(moved, Dispatch("mousedown"))]
       ELSE IF "RELEASED" \in b
            THEN [data |-> D1,
                  trace |-> moved \o <<Dispatch("mouseup"), Dispatch("click")>>]
            ELSE [data |-> D1, trace |-> moved]

\* UIContext::start of the string-keyed revision up to the wgetch of its
\* loop: render(children), and one key that is read and dropped.
LegacyStart ==
    /\ pc = "setup"
    /\ pc' = "read"
    /\ frame' = legacy_render(elems, children, 1)
    /\ UNCHANGED <<elems, windows, children, mcalls, running, mdata, pending,
                   cycle, press, pair, screen, sdata, resized, session, counter,
                   busVars>>

\* wgetch returns c; with KEY_MOUSE the driver holds n records.  'q' leaves
\* the loop; any other key restages the root, and KEY_RESIZE reads the
\* dimensions and dispatches "resize".
LegacyRead(c, n) ==
    /\ pc = "read"
    /\ running
    /\ c # "KEY_MOUSE" => n = 0
    /\ IF c = "q"
       THEN /\ running' = FALSE
            /\ pc' = "done"
            /\ UNCHANGED <<frame, pending, cycle, screen>>
       ELSE /\ running' = running
            /\ pc' = "mouse"
            /\ pending' = n
            /\ cycle' = [NoCycle EXCEPT !.polled = TRUE, !.burst = n, !.key = c]
            /\ screen' = IF c = "KEY_RESIZE"
                         THEN update_dimensions(windows, screen) ELSE screen
            /\ frame' = <<Call("touchwin", stdscr, 0, "start"),
                          Call("wnoutrefresh", stdscr, 0, "start")>>
                        \o (IF c = "KEY_RESIZE"
                            THEN <<Call("getmaxyx", stdscr, 0, "start"),
                                   Call("resize", stdscr, 0, "dispatch")>>
                            ELSE <<>>)
    /\ UNCHANGED <<elems, windows, children, mcalls, mdata, press, pair, sdata,
                   resized, session, counter, busVars>>

\* getmouse returns one record, and the loop body runs for it.
LegacyMouse(x, y, b, u) ==
    /\ pc = "mouse"
    /\ ~MouseQueueEmpty(pending)
    /\ \E R \in {LegacyRecord(mdata, windows, children, x, y, b, u)} :
          /\ mdata' = R.data
          /\ frame' = R.trace
    /\ pending' = pending - 1
    /\ cycle' = [cycle EXCEPT !.records = @ + 1,
                              !.late = @ \/ cycle.commits > 0,
                              !.bits = b]
    /\ UNCHANGED <<elems, windows, children, mcalls, pc, running, press, pair,
                   screen, sdata, resized, session, counter, busVars>>

\* getmouse fails, or the key was not KEY_MOUSE: the iteration ends with
\* render(children).
LegacyPaint ==
    /\ pc = "mouse"
    /\ MouseQueueEmpty(pending)
    /\ pc' = "read"
    /\ frame' = legacy_render(elems, children, 1)
    /\ cycle' = [cycle EXCEPT !.commits = @ + Commits(frame'), !.bits = {},
                              !.key = ""]
    /\ UNCHANGED <<elems, windows, children, mcalls, running, mdata, pending,
                   press, pair, screen, sdata, resized, session, counter,
                   busVars>>

\* An application of the string-keyed revision: Boxes and Buttons added as
\* roots, and the loop run on keys, resizes and mouse records; one
\* of the pointer positions lies outside every Box.
NextLegacy ==
    \/ Room(1) /\ AddBox(0, 0, 0, BoxSize.w, BoxSize.h)
    \/ Room(3) /\ LegacyAddButton
    \/ LegacyStart
    \/ \E c \in InputKeys, n \in 0..MaxBurst : LegacyRead(c, n)
    \/ \E p \in Points \cup {[x |-> 12, y |-> 7]}, b \in BStates, u \in BOOLEAN :
          LegacyMouse(p.x, p.y, b, u)
    \/ LegacyPaint

SpecLegacy == Init /\ [][NextLegacy]_vars

\* ------------------------------------------------------------ render claims
Range(f) == {f[i] : i \in DOMAIN f}

RECURSIVE Subtree(_, _)
\* An element and everything below it.
Subtree(E, n) ==
    {n} \cup UNION {Subtree(E, c) : c \in Range(E[n].composition)}

Forest == UNION {Subtree(elems, r) : r \in Range(children)}

\* The elements whose render() a sequence of calls ran, in order.
Rendered(f) == SelectSeq(f, LAMBDA c : c.op = "render")

\* The place of an element's render() in a sequence of calls.
Pos(m, n) == CHOOSE i \in 1..Len(m) : m[i].el = n

\* Every element of the forest is rendered exactly once.
CoversForest(m) ==
    /\ Len(m) = Cardinality(Forest)
    /\ \A n \in Forest : \E i \in 1..Len(m) : m[i].el = n

\* C6: one call of Renderer::render on the root list calls render() on every
\* node of the forest exactly once, the roots in list order, and everything
\* in a node's composition, recursively, before the node itself.
C6_PostOrderRender ==
    (pc = "setup" /\ frame # <<>>) =>
        LET m == Rendered(frame)
        IN /\ CoversForest(m)
           /\ \A i, j \in 1..Len(children) :
                 i < j => Pos(m, children[i]) < Pos(m, children[j])
           /\ \A n \in Forest : \A c \in Subtree(elems, n) \ {n} :
                 Pos(m, c) < Pos(m, n)

\* Renderer::render has run on two roots, one of them a Node with its Button
\* nested two levels deep.
C6_Witness ==
    /\ pc = "setup"
    /\ frame # <<>>
    /\ frame[1].by = "render"
    /\ Len(children) = 2
    /\ \E n \in Forest : elems[n].kind = "Node"
    /\ Len(Rendered(frame)) = Cardinality(Forest)

\* C7: batch_render stages the root surface once, renders the whole forest
\* once, and commits once, last; nothing is committed between two element
\* renders, whatever the forest's size and depth.
C7_BatchRenderOneCommit ==
    (pc = "setup" /\ frame # <<>> /\ frame[1].by = "batch_render") =>
        /\ frame[1] = Call("wnoutrefresh", stdscr, 0, "batch_render")
        /\ frame[Len(frame)] = Call("doupdate", stdscr, 0, "batch_render")
        /\ {i \in 1..Len(frame) : frame[i].by = "batch_render"} = {1, Len(frame)}
        /\ {i \in 1..Len(frame) : frame[i].op = "doupdate"} = {Len(frame)}
        /\ CoversForest(Rendered(frame))

\* batch_render has run on a forest of at least five elements, two levels deep.
C7_Witness ==
    /\ pc = "setup"
    /\ frame # <<>>
    /\ frame[1].by = "batch_render"
    /\ Cardinality(Forest) >= 5
    /\ \E n \in Forest : \E c \in Range(elems[n].composition) :
          elems[c].composition # <<>>
    /\ \E i \in 1..Len(frame) : frame[i].op = "doupdate"

\* ------------------------------------------------------------ loop claims
\* C8: in start, after every key that is not the quit key, all mouse records
\* pending at the poll are handled before anything is painted, and exactly one
\* batch_render, with one commit, is made before the next read.
C8_DrainThenOnePaint ==
    /\ pc = "mouse" => cycle.commits = 0
    /\ ~cycle.late
    /\ (pc = "read" /\ cycle.polled) =>
          /\ cycle.records = cycle.burst
          /\ cycle.commits = 1
          /\ frame # <<>>
          /\ frame[Len(frame)].op = "doupdate"

\* A burst of MaxBurst records has been handled and painted, and the loop is
\* back at the read.
C8_Witness ==
    /\ pc = "read"
    /\ cycle.polled
    /\ cycle.burst = MaxBurst
    /\ cycle.records = MaxBurst
    /\ cycle.commits = 1
    /\ Cardinality(Forest) > 0

Min(S) == CHOOSE i \in S : \A j \in S : i <= j

\* C9: when two roots at positions i < j both contain the pointer at a press,
\* the target after the walk is the root at position i.
C9_FirstRootWins ==
    (press.walked /\ Cardinality(press.inside) >= 2) =>
        mdata.element = children[Min(press.inside)]

\* C10: once a walk has resolved a target, no candidate evaluated later in
\* the walk replaces it.
C10_WalkShortCircuits ==
    (press.walked /\ press.hits # <<>>) => mdata.element = press.hits[1]

\* ------------------------------------------------------------ hit-test claims
\* The Buttons and Nodes of the forest.
Composites == {c \in Forest : elems[c].kind \in {"Button", "Node"}}

\* The composites whose own Box contains the pointer of the payload.
CompositesAt ==
    {c \in Composites :
        LET box == FirstBox(elems, elems[c].composition)
        IN box # 0 /\ InBounds(elems, windows, box, mdata.x, mdata.y)}

\* The composites whose window-identity test accepts the published element.
Accepting ==
    {c \in Composites :
        mdata.element # 0 /\ elems[mdata.element].window = elems[c].window}

\* C11: when a press falls inside the Box of a composite, the published
\* element is a composite that owns a Box containing the pointer, never a Box
\* or Text leaf, and the window-identity test accepts it for that composite
\* and for no other.
C11_CompositePublished ==
    (press.walked /\ CompositesAt # {}) =>
        /\ mdata.element \in CompositesAt
        /\ Accepting = {mdata.element}

\* The root positions holding a primitive Box whose bounds contain the
\* pointer of the payload.
RootBoxesAt ==
    {i \in 1..Len(children) :
        /\ elems[children[i]].kind = "Box"
        /\ InBounds(elems, windows, children[i], mdata.x, mdata.y)}

\* C12: a press at a point inside the bounds of at least one Box of the root
\* list resolves a target; when the roots are all Boxes the target is the
\* first Box in list order whose bounds contain the pointer.
C12_RootBoxResolved ==
    (press.walked /\ RootBoxesAt # {}) =>
        /\ mdata.element # 0
        /\ (\A i \in 1..Len(children) : elems[children[i]].kind = "Box") =>
              mdata.element = children[Min(RootBoxesAt)]

\* The root position under which an element of the forest hangs.
RootOf(c) == CHOOSE i \in 1..Len(children) : c \in Subtree(elems, children[i])

\* The composites the walk of a press compared with the pointer: no target
\* was stored before the walk, and no root before the composite's set one.
Tested ==
    {c \in Composites :
        /\ press.before = 0
        /\ FirstBox(elems, elems[c].composition) # 0
        /\ \A i \in 1..Len(press.hits) : RootOf(press.hits[i]) >= RootOf(c)}

\* C13: a candidate the walk compares with the pointer matches exactly when
\* origin.x <= pointer.x <= origin.x + width and origin.y <= pointer.y <=
\* origin.y + height, with the origin the driver reports for the Box's
\* surface and the Box's cached size.
C13_InclusiveBounds ==
    press.walked =>
        \A c \in Tested :
            LET box == FirstBox(elems, elems[c].composition)
                origin == windows[elems[box].window]
            IN (\E i \in 1..Len(press.hits) : press.hits[i] = c)
               <=> /\ origin.x <= mdata.x
                   /\ mdata.x <= origin.x + elems[box].width
                   /\ origin.y <= mdata.y
                   /\ mdata.y <= origin.y + elems[box].height

\* A press has matched a candidate with the pointer on the far corner of its
\* Box: origin + size on both axes.
C13_Witness ==
    /\ press.walked
    /\ \E c \in Tested :
          LET box == FirstBox(elems, elems[c].composition)
              origin == windows[elems[box].window]
          IN /\ \E i \in 1..Len(press.hits) : press.hits[i] = c
             /\ mdata.x = origin.x + elems[box].width
             /\ mdata.y = origin.y + elems[box].height

\* C14: after any input, a press whose pointer is inside no element's bounds
\* leaves the stored target absent, so the Mousedown handlers of that press
\* see an absent element.
C14_MissLeavesAbsent ==
    (press.walked /\ CompositesAt = {} /\ RootBoxesAt = {}) =>
        mdata.element = 0

\* ------------------------------------------------------------ press and release claims
\* The notifications of a sequence of calls, in order.
Notifies(f) == SelectSeq(f, LAMBDA c : c.by = "notify")

\* The last record handled took the release branch, and the process goes on.
ReleaseHandled ==
    /\ pc = "mouse"
    /\ cycle.records > 0
    /\ cycle.bits = {"RELEASED"}

\* The step handles a record that is not a press resolving a target.
NoTargetRecord ==
    /\ cycle'.records = cycle.records + 1
    /\ ~(press'.walked /\ press'.hits # <<>>)

\* C15: on every release record, with a target stored or not, Mouseup is
\* notified strictly before Click and the target is cleared once Click has
\* been dispatched; from then on every event dispatched before the next press
\* that resolves a target is dispatched with an absent element.
C15_ReleaseClears ==
    /\ [](ReleaseHandled =>
            /\ LET n == Notifies(frame)
               IN /\ Len(n) = 3
                  /\ n[1].op = "Mousemove"
                  /\ n[2].op = "Mouseup"
                  /\ n[3].op = "Click"
            /\ mdata.element = 0)
    /\ [][(mdata.element = 0 /\ NoTargetRecord) =>
            /\ mdata'.element = 0
            /\ \A i \in 1..Len(frame') :
                  frame'[i].by = "notify" => frame'[i].el = 0]_vars

\* A release has been handled with a target stored and the listeners wired:
\* Mouseup and Click were dispatched with the target, which is now cleared.
C15_Witness ==
    /\ ReleaseHandled
    /\ DOMAIN handlers # {}
    /\ Len(Notifies(frame)) = 3
    /\ Notifies(frame)[3].op = "Click"
    /\ Notifies(frame)[3].el # 0
    /\ mdata.element = 0

\* C16: for one press and its release, the Mousedown handlers, the Mouseup
\* handlers and the Click handlers are given the same element, also when
\* records without button bits were handled in between.
C16_SameElementThroughPair ==
    pair.closed => (pair.up = pair.down /\ pair.click = pair.down)

\* A press resolved a target, a move record followed, and the release has
\* been handled with the listeners wired.
C16_Witness ==
    /\ pair.closed
    /\ pair.moved
    /\ pair.down # 0
    /\ pair.click = pair.down
    /\ DOMAIN handlers # {}

\* ------------------------------------------------------------ drag claims
\* main has subscribed mouse_event to the type.
Wired(type) ==
    \E i \in 1..Len(SubscriberList(handlers, type)) :
        SubscriberList(handlers, type)[i] = "mouse_event"

\* A Node was pressed and not yet released, it is the stored target, and its
\* Mousemove handler is dispatched for every record.
Dragging ==
    /\ pc = "mouse"
    /\ pair.pressed
    /\ ~pair.closed
    /\ pair.down \in DOMAIN elems
    /\ elems[pair.down].kind = "Node"
    /\ mdata.element = pair.down
    /\ Wired("Mousemove")

\* C17: after a press on a Node at offset (dx,dy) from its surface origin,
\* every record at (px,py) before the release leaves the surface origin at
\* (px-dx, py-dy), with the offset as stored at the press.
C17_DragKeepsOffset ==
    Dragging =>
        /\ windows[elems[pair.down].window].x = mdata.x - pair.dx
        /\ windows[elems[pair.down].window].y = mdata.y - pair.dy
        /\ mdata.offset_x = pair.dx
        /\ mdata.offset_y = pair.dy

\* C18: a grabbed target whose flags do not include Draggable (Flags::None,
\* the default) is never repositioned: no mouse record changes the origin of
\* its surface.
C18_OnlyDraggableMoves ==
    [][\A n \in DOMAIN elems :
          (mdata.element = n /\ elems[n].flags = "None") =>
              /\ windows'[elems[n].window].x = windows[elems[n].window].x
              /\ windows'[elems[n].window].y = windows[elems[n].window].y]_vars

\* ------------------------------------------------------------ resize claims
\* main has subscribed screen_event to Resize.
ResizeWired ==
    \E i \in 1..Len(SubscriberList(handlers, "Resize")) :
        SubscriberList(handlers, "Resize")[i] = "screen_event"

\* The iteration of the loop that runs is the one of a resize signal.
ResizeCycle == pc = "mouse" /\ cycle.key = "KEY_RESIZE"

\* C19: once a resize signal for a viewport of (W,H) has been processed,
\* get_width() and get_height() return (W,H) and the payload the Resize
\* handlers get carries W and H; an iteration whose input is not a resize
\* signal dispatches no Resize and leaves the payload alone.
C19_ResizeRoundTrip ==
    /\ [](/\ get_width(screen) = windows[stdscr].w
          /\ get_height(screen) = windows[stdscr].h
          /\ ResizeCycle =>
                /\ sdata = [width |-> windows[stdscr].w,
                            height |-> windows[stdscr].h]
                /\ ResizeWired =>
                      /\ resized.width = windows[stdscr].w
                      /\ resized.height = windows[stdscr].h)
    /\ [][cycle'.key # "KEY_RESIZE" =>
             /\ resized' = resized
             /\ sdata' = sdata
             /\ screen' = screen
             /\ \A i \in 1..Len(frame') : frame'[i].op # "Resize"]_vars

\* A resize to the larger terminal has been processed with the listeners
\* wired: the handler got the new width and height.
C19_Witness ==
    /\ ResizeCycle
    /\ ResizeWired
    /\ windows[stdscr].w = COLS + 4
    /\ resized.width = COLS + 4
    /\ resized.height = LINES + 2
    /\ get_width(screen) = COLS + 4

\* The place of the first call with the name op in a sequence of calls, 0 when
\* there is none.
FirstCall(f, op) ==
    IF \E i \in 1..Len(f) : f[i].op = op
    THEN Min({i \in 1..Len(f) : f[i].op = op}) ELSE 0

\* C20: on a resize signal the cached dimensions are read again first, then
\* Resize is dispatched, its handlers already reading the new dimensions, and
\* nothing is painted before both are done; the next thing the loop does is
\* the paint of that iteration.
C20_ResizeBeforePaint ==
    /\ [](ResizeCycle =>
            /\ FirstCall(frame, "getmaxyx") > 0
            /\ FirstCall(frame, "getmaxyx") < FirstCall(frame, "Resize")
            /\ Commits(frame) = 0
            /\ cycle.commits = 0
            /\ ResizeWired =>
                  /\ resized.ctx_width = windows[stdscr].w
                  /\ resized.ctx_height = windows[stdscr].h)
    /\ [][ResizeCycle =>
             /\ pc' = "read"
             /\ Commits(frame') = 1
             /\ cycle'.commits = 1
             /\ resized' = resized
             /\ screen' = screen]_vars

\* A resize signal has been handled on a terminal of COLS by LINES, with a
\* Button on the screen and the listeners wired: the handler has run and read
\* the cached width and height, and nothing is painted yet.
C20_Witness ==
    /\ ResizeCycle
    /\ ResizeWired
    /\ Cardinality(Forest) > 0
    /\ sdata.width = COLS
    /\ resized.ctx_width = COLS
    /\ resized.ctx_height = LINES
    /\ Commits(frame) = 0

\* ------------------------------------------------------------ stop claims
\* A callback has called stop() during the burst of the last poll.
StoppedInBurst == cycle.stopped > 0

\* C21: when a callback calls stop() while a burst of records is handled, the
\* loop goes on with the records still pending, paints once, and only then
\* leaves, without reading another input.
C21_StopNotPreemptive ==
    /\ [](StoppedInBurst =>
            /\ ~running
            /\ pc = "mouse" => cycle.commits = 0
            /\ pc \in {"read", "done"} =>
                  /\ cycle.records = cycle.burst
                  /\ cycle.commits = 1
                  /\ frame[Len(frame)].op = "doupdate")
    /\ [][StoppedInBurst =>
             \/ /\ pc = "mouse" /\ ~MouseQueueEmpty(pending)
                /\ pc' \in {"mouse", "aborted"}
                /\ cycle'.records = cycle.records + 1
             \/ /\ pc = "mouse" /\ MouseQueueEmpty(pending)
                /\ pc' = "read"
             \/ /\ pc = "read"
                /\ pc' = "done"
                /\ cycle' = cycle
                /\ frame' = frame
                /\ mdata' = mdata]_vars

\* start has returned after a full burst whose first record's Click called
\* stop(): the later records were handled and the iteration was painted.
C21_Witness ==
    /\ pc = "done"
    /\ cycle.stopped = 1
    /\ cycle.burst = MaxBurst
    /\ cycle.records = MaxBurst
    /\ cycle.commits = 1
    /\ ~running

\* C22: once 'q' has been read or stop() has been called, start reads no
\* further input and dispatches nothing for a later input, it ends with
\* is_running() false, and it returns (unless the undefined call of a Button's
\* callback has ended the process before).
C22_QuitReturns ==
    /\ [](pc = "done" => ~running)
    /\ [][~running =>
             /\ ~running'
             /\ cycle'.burst = cycle.burst
             /\ cycle'.polled = cycle.polled
             /\ cycle'.key \in {cycle.key, ""}
             /\ pc = "read" => (pc' = "done" /\ frame' = frame)]_vars
    /\ [][(pc = "read" /\ running /\ ~running') =>
             (pc' = "done" /\ frame' = frame /\ mdata' = mdata)]_vars
    /\ (~running ~> (pc = "done" \/ pc = "aborted"))

\* 'q' has been read after at least one other input, with a Button on the
\* screen: start has returned and nothing was stopped by a callback.
C22_Witness ==
    /\ pc = "done"
    /\ ~running
    /\ cycle.stopped = 0
    /\ cycle.polled
    /\ cycle.commits = 1
    /\ Cardinality(Forest) > 0

\* The construction was attempted and initscr() yielded no window.
NoWindow == session.window = "null"

\* C23: when initscr() yields no window, the construction of the context
\* raises an error and the process stays there: the running flag is never
\* true, no element is constructed or added, nothing is read or painted and
\* no teardown is made on the missing session.
C23_InitFailureFatal ==
    [](NoWindow =>
          /\ pc = "failed"
          /\ ~is_running(running)
          /\ elems = <<>>
          /\ children = <<>>
          /\ frame = <<>>
          /\ ~cycle.polled
          /\ session.teardowns = 0)

\* The construction has failed.
C23_Witness == NoWindow /\ pc = "failed"

\* The process has ended: main returned, or the process was terminated.
ProcessEnded == pc \in {"exited", "aborted", "terminated"}

\* C24: when the process has ended after the session was acquired, the
\* teardown has run exactly once, and it never runs twice.
C24_TeardownOnEveryExit ==
    /\ (ProcessEnded /\ session.window # "null") => session.teardowns = 1
    /\ session.teardowns <= 1

\* C25: whatever width and height a Box is created with or set to, zero
\* included, it reports a width and a height of at least 1 and its surface is
\* at least 1x1.
C25_GeometryClamped ==
    \A box \in DOMAIN elems :
        elems[box].kind = "Box" =>
            /\ UIBox_get_width(elems, box) >= 1
            /\ UIBox_get_height(elems, box) >= 1
            /\ windows[elems[box].window].w >= 1
            /\ windows[elems[box].window].h >= 1

\* A point lies in the viewport the context has cached.
InViewport(x, y) ==
    /\ 0 <= x /\ x < get_width(screen)
    /\ 0 <= y /\ y < get_height(screen)

\* C26: whatever records were handled, every Node's cached position and the
\* origin of its surface lie inside the viewport.
C26_PositionsClamped ==
    \A n \in DOMAIN elems :
        elems[n].kind = "Node" =>
            /\ InViewport(elems[n].x, elems[n].y)
            /\ InViewport(windows[elems[n].window].x,
                          windows[elems[n].window].y)

\* The listeners are wired, and the last press lay inside the Button its
\* handlers were given and is not released yet.
PressedOnButton ==
    /\ Wired("Click")
    /\ pair.pressed /\ ~pair.closed
    /\ pair.hit
    /\ pair.down # 0
    /\ elems[pair.down].kind = "Button"

\* A record that is a release has been handled in this step.
ReleaseHandledNow ==
    /\ pc = "mouse"
    /\ cycle'.records = cycle.records + 1
    /\ cycle'.bits = {"RELEASED"}

\* C27: the release that follows a press inside a Button increments the
\* counter of the Button's callback by one, and no other step changes the
\* counter.
C27_ClickCountsOnce ==
    [][counter' = counter + (IF PressedOnButton /\ ReleaseHandledNow
                             THEN 1 ELSE 0)]_vars

\* The entries of a list other than p, in order.
Others(cs, p) == SelectSeq(cs, LAMBDA c : c # p)

\* The step was a call of op on the root list, with the pointer p.
RootCall(op, p) ==
    /\ frame' = <<Call(op, stdscr, p, "main")>>
    /\ pc = "setup"

\* C28: add_child appends a non-null element at the end and ignores null;
\* del_child(p) leaves a list without the root p and with every other root in
\* its previous order, and leaves the list alone when p is null or not in it;
\* clear_children leaves the list empty.
C28_RootListMaintained ==
    [][\A p \in Pointers :
          /\ RootCall("add_child", p) =>
                children' = IF p = 0 THEN children ELSE Append(children, p)
          /\ RootCall("del_child", p) =>
                IF p # 0 /\ p \in Range(children)
                THEN /\ p \notin Range(children')
                     /\ children' = Others(children, p)
                ELSE children' = children
          /\ RootCall("clear_children", p) => children' = <<>>]_vars

\* The places an element can be held in: an entry of the root list (list 0)
\* or an entry of an element's composition.
Slots ==
    {<<0, i>> : i \in 1..Len(children)}
        \cup UNION {{<<e, i>> : i \in 1..Len(elems[e].composition)} :
                    e \in DOMAIN elems}

\* The element held in a place.
HeldAt(s) ==
    IF s[1] = 0 THEN children[s[2]] ELSE elems[s[1]].composition[s[2]]

\* The elements below an element, to a depth of n compositions.
RECURSIVE Below(_, _)
Below(id, n) ==
    IF n = 0 THEN {}
    ELSE Range(elems[id].composition)
            \cup UNION {Below(k, n - 1) : k \in Range(elems[id].composition)}

\* C29: no element is held in more than one place of the root list and the
\* compositions together, and no element is below itself.
C29_StrictTree ==
    /\ \A s \in Slots, t \in Slots : HeldAt(s) = HeldAt(t) => s = t
    /\ \A id \in DOMAIN elems : id \notin Below(id, Cardinality(DOMAIN elems))

\* C30: the position every Box reports is the origin of its surface.
C30_BoxPosIsSurfaceOrigin ==
    \A box \in DOMAIN elems :
        elems[box].kind = "Box" =>
            UIBox_get_pos(elems, box) = [x |-> windows[elems[box].window].x,
                                         y |-> windows[elems[box].window].y]

\* A Text that is a root has a window of its own.
OwnTexts == {t \in Range(children) : elems[t].kind = "Text"}

\* C31: the window position every Text with a window of its own reports is
\* the origin of its surface.
C31_TextPosIsSurfaceOrigin ==
    \A t \in OwnTexts :
        UIText_get_window_pos(elems, t) = [x |-> windows[elems[t].window].x,
                                           y |-> windows[elems[t].window].y]

\* The ids of the subscriptions a listener holds are distinct.
DistinctIds ==
    \A l \in Listeners :
        \A i \in 1..Len(calls[l]), j \in 1..Len(calls[l]) :
            calls[l][i].id = calls[l][j].id => i = j

\* C32: the ids of any two live subscriptions are distinct, and a remove
\* that matches takes exactly one subscription out of the listener's list
\* and leaves every other one in place.
C32_RemoveOnlyMatching ==
    /\ []DistinctIds
    /\ [][(lastOp'.op = "remove" /\ lastOp'.hit) =>
             \E i \in 1..Len(calls[lastOp'.listener]) :
                 /\ calls[lastOp'.listener][i].id = lastOp'.addr
                 /\ calls'[lastOp'.listener] =
                        SubSeq(calls[lastOp'.listener], 1, i - 1)
                            \o SubSeq(calls[lastOp'.listener], i + 1,
                                      Len(calls[lastOp'.listener]))]_vars

\* C33: a paint of the string-keyed revision commits to the physical screen
\* exactly once, whatever elements with a composition the forest holds.
C33_LegacyPaintCommitsOnce ==
    (frame # <<>> /\ frame[Len(frame)].op = "doupdate") => Commits(frame) = 1

\* The entries of a sequence of calls that are dispatches.
Dispatched(f) == SelectSeq(f, LAMBDA c : c.by = "dispatch")

\* C34: in the string-keyed revision the release leaves the payload without
\* an element, and while the payload has none and no press is handled, every
\* event is dispatched without an element.
C34_LegacyReleaseClears ==
    /\ [][ReleaseHandledNow => mdata'.element = 0]_vars
    /\ [][(mdata.element = 0 /\ "PRESSED" \notin cycle'.bits) =>
             /\ mdata'.element = 0
             /\ \A i \in 1..Len(Dispatched(frame')) :
                    Dispatched(frame')[i].el = 0]_vars

\* The least of a set of numbers.
Least(S) == CHOOSE i \in S : \A j \in S : i <= j

\* C35: in the string-keyed revision, when a press is handled and two or more
\* root Boxes contain the pointer, the target recorded is the first of them
\* in the root list.
C35_LegacyFirstRootWins ==
    [][(/\ pc = "mouse"
        /\ cycle'.records = cycle.records + 1
        /\ "PRESSED" \in cycle'.bits
        /\ \A i \in 1..Len(children) : elems[children[i]].kind = "Box"
        /\ Cardinality(RootsContaining(elems, windows, children,
                                       mdata'.x, mdata'.y)) >= 2)
       => mdata'.element =
             children[Least(RootsContaining(elems, windows, children,
                                            mdata'.x, mdata'.y))]]_vars

\* The step handles one mouse record.
RecordHandledNow ==
    /\ pc = "mouse"
    /\ cycle'.records = cycle.records + 1

\* The event types of the notifications in a sequence of calls, in order.
NotifiedTypes(f) == [i \in 1..Len(Notifies(f)) |-> Notifies(f)[i].op]

\* C36: for every record handled, the calls are getmouse, then Mousemove,
\* then for a press the hit test and Mousedown with the element the test
\* left, for a release Mouseup and Click, and nothing more for a record with
\* neither bit; the handlers of Mousemove see the record's coordinates (a
\* Node that is the target is put at them, less the stored offset).
C36_RecordOrder ==
    [][RecordHandledNow =>
          /\ frame'[1].op = "getmouse"
          /\ NotifiedTypes(frame') =
                IF "PRESSED" \in cycle'.bits THEN <<"Mousemove", "Mousedown">>
                ELSE IF "RELEASED" \in cycle'.bits
                     THEN <<"Mousemove", "Mouseup", "Click">>
                     ELSE <<"Mousemove">>
          /\ press'.walked = ("PRESSED" \in cycle'.bits)
          /\ "PRESSED" \in cycle'.bits =>
                Notifies(frame')[2].el = mdata'.element
          /\ (/\ mdata.element # 0
              /\ elems[mdata.element].kind = "Node"
              /\ Wired("Mousemove")) =>
                /\ elems'[mdata.element].x = mdata'.x - mdata.offset_x
                /\ elems'[mdata.element].y = mdata'.y - mdata.offset_y]_vars

\* A press, a release and a record with neither bit have been handled in one
\* burst with the listeners wired, the last of them the release.
C36_Witness ==
    /\ pc = "mouse"
    /\ cycle.records >= 2
    /\ cycle.bits = {"RELEASED"}
    /\ pair.closed /\ pair.moved
    /\ Wired("Mousemove") /\ Wired("Click")
    /\ NotifiedTypes(frame) = <<"Mousemove", "Mouseup", "Click">>

\* The step handles a press record.
PressHandledNow == RecordHandledNow /\ "PRESSED" \in cycle'.bits

\* After the step, the bounds of element el's first Box contain the pointer.
ContainsPointerNext(el) ==
    LET box == FirstBox(elems', elems'[el].composition)
    IN box # 0 /\ InBounds(elems', windows', box, mdata'.x, mdata'.y)

\* C37: whenever Mousedown is notified with an element, the bounds of that
\* element's Box contain the pointer of that press.
C37_MousedownTargetUnderPointer ==
    [][(PressHandledNow /\ Notifies(frame')[2].el # 0) =>
          ContainsPointerNext(Notifies(frame')[2].el)]_vars

\* C38: unsub(e, l) removes every occurrence of l from the list of e, also
\* when l is subscribed more than once, keeps the other listeners of e in
\* their order, and leaves the list of every other event as it was.
C38_UnsubRemovesEveryOccurrence ==
    [][lastOp'.op = "unsub" =>
          /\ ~IsSubscribed(handlers', lastOp'.event, lastOp'.listener)
          /\ SubscriberList(handlers', lastOp'.event) =
                SelectSeq(SubscriberList(handlers, lastOp'.event),
                          LAMBDA p : p # lastOp'.listener)
          /\ \A k \in Keys \ {lastOp'.event} :
                SubscriberList(handlers', k) = SubscriberList(handlers, k)
      ]_vars

\* unsub has removed a listener that was subscribed twice to an event, and
\* a subscription other than the removed ones is left.
C38_Witness ==
    /\ lastOp.op = "unsub"
    /\ lastOp.removed >= 2
    /\ \E k \in Keys : SubscriberList(handlers, k) # <<>>

\* The kinds of the elements of a composition, in order.
KindsOf(comp) == [i \in 1..Len(comp) |-> elems[comp[i]].kind]

\* C39: the composition of a Node is its Box, its Text and its inner Button,
\* in that order, followed by one Line exactly when current_line is set (and
\* by nothing else); no step takes any of the first three away.
C39_NodeCompositionShape ==
    /\ [](\A n \in DOMAIN elems :
             elems[n].kind = "Node" =>
                /\ KindsOf(elems[n].composition) =
                      <<"Box", "Text", "Button">>
                          \o (IF elems[n].current_line # 0
                              THEN <<"Line">> ELSE <<>>)
                /\ elems[n].composition[3] = elems[n].clickable
                /\ elems[n].current_line # 0 =>
                      elems[n].composition[4] = elems[n].current_line)
    /\ [][\A n \in DOMAIN elems :
             (elems[n].kind = "Node" /\ n \in DOMAIN elems') =>
                /\ elems'[n].kind = "Node"
                /\ SubSeq(elems'[n].composition, 1, 3) =
                      SubSeq(elems[n].composition, 1, 3)]_vars

\* A Node holds a line that outlived a release and followed the pointer.
C39_Witness ==
    \E n \in DOMAIN elems :
        /\ elems[n].kind = "Node"
        /\ elems[n].current_line # 0
        /\ Len(elems[n].composition) = 4
        /\ elems[elems[n].current_line].pos2 # elems[elems[n].current_line].pos1

\* The elements that belong to Node n: the Node, the elements of its
\* composition, and the Box and the Text of its inner Button.
PartsOf(n) ==
    {n} \cup Range(elems[n].composition)
        \cup Range(elems[elems[n].clickable].composition)

\* The surfaces of the elements of a set.
SurfacesOf(ids) == {elems[i].window : i \in ids}

\* C40: a record handled while a Node is the target moves that Node and its
\* own inner Button only: every element that is not part of the Node keeps
\* all its fields, every surface that is not one of the Node's keeps its
\* origin and size, and the root list is as it was.
C40_DragMovesOnlyTheNode ==
    [][(/\ RecordHandledNow
        /\ mdata.element # 0
        /\ elems[mdata.element].kind = "Node") =>
          /\ \A m \in DOMAIN elems \ PartsOf(mdata.element) :
                m \in DOMAIN elems' /\ elems'[m] = elems[m]
          /\ \A w \in DOMAIN windows \ SurfacesOf(PartsOf(mdata.element)) :
                w \in DOMAIN windows' /\ windows'[w] = windows[w]
          /\ children' = children]_vars

\* One of two root Nodes is the target and has been dragged away from every
\* origin Nodes are created at, the surface of its inner Button with it,
\* while the other Node is where it was created.
C40_Witness ==
    /\ Len(children) = 2
    /\ \A i \in 1..2 : elems[children[i]].kind = "Node"
    /\ mdata.element \in Range(children)
    /\ \E n \in Range(children) :
          /\ n = mdata.element
          /\ [x |-> windows[elems[n].window].x,
              y |-> windows[elems[n].window].y] \notin NodeOrigins
          /\ windows[elems[elems[n].clickable].window].x = elems[n].x
          /\ windows[elems[elems[n].clickable].window].y = elems[n].y
          /\ \A m \in Range(children) \ {n} :
                [x |-> windows[elems[m].window].x,
                 y |-> windows[elems[m].window].y] \in NodeOrigins

====
